---- MODULE Spec2Model ----
(***************************************************************************)
(* A model of doit, the capability broker: the Level 1 rule engine, the    *)
(* registry rule set, the pipeline parser and validator, the daemon's      *)
(* per-connection handler, the approval-token store and the hash-chained   *)
(* audit log.                                                              *)
(*                                                                         *)
(* Strings the code inspects byte by byte (capability names, arguments,    *)
(* paths, flags) are sequences of one-character strings, so that           *)
(* hasAnyFlag, strings.HasPrefix and filepath.Clean are computed as the    *)
(* code computes them.  The pipeline operators are single code points that *)
(* are written here by their code-point names.                             *)
(***************************************************************************)
EXTENDS Integers, Sequences, FiniteSets, TLC

VARIABLES
    \* ---- Level 1 engine under test (policy.Level1, policy.Request)
    l1Rules,      \* Level1.rules, in the order NewLevel1 appended them
    pSegs,        \* Request.Segments
    pRedirOut,    \* Request.HasRedirectOut
    pRes,         \* [BOOLEAN -> Result]: Evaluate's result per Request.Retry
    \* ---- approval-token store (policy.TokenStore) and its callers
    tsNow,        \* the clock time.Now() reads; one unit is one TTL step
    tsTokens,     \* TokenStore.tokens: token -> [Args, ExpiresAt]
    tsMu,         \* TokenStore.mu: the caller holding it, or NoCaller
    tsNext,       \* the next token generateToken's random source yields
    tsPc,         \* per caller: where it stands in Issue, Validate or Purge
    tsLocal,      \* per caller: the locals of the call it is in
    tsIssued,     \* history: per issued token, what Issue stored for it
    tsValidated,  \* history: the Validate calls that returned, in order
    tsPurged,     \* history: the Purge calls that returned, in order
    \* ---- audit log (audit.Logger, the log file, audit.Verify)
    auFile,       \* the lines of the log file, in order
    auSeq,        \* Logger.seq
    auPrevHash,   \* Logger.prevHash
    auMu,         \* Logger.mu: the caller holding it, or NoCaller
    auPc,         \* per caller: where it stands in Log
    auEntry,      \* per caller: the entry its Log call has built
    auCalls,      \* history: Log calls that returned, with their outcome
    auTamper,     \* history: what was done to the file behind the Logger
    auPrior,      \* history: the last NewLogger on the file, and the cursor
                  \* of the Logger it replaced
    \* ---- daemon (daemon.Server) and the connection it is handling
    dSrv,         \* Server: policyL1, policyL2, logger (nil or not), reg
    dPc,          \* where handleConnection stands
    dReq,         \* the ipc.Request read from the connection
    dResult,      \* what evaluatePolicy returned, if it was called
    dCmd,         \* RunCommand: the steps of the parsed command
    dStep,        \* ExecuteCommand: the index of the next step
    dLastErr,     \* ExecuteCommand: lastErr
    dRunCalled,   \* history: cli.RunCommand was called
    dInvoked,     \* history: the segments whose capability's Run was called
    dTrace,       \* history: what ExecuteCommand did with each step so far
    dFrame,       \* history: the first frame read on the connection
    dExits,       \* the ExitResult frames written to the connection
    \* ---- the frame writers of one connection (daemon.frameWriter)
    fwMu,         \* connMu: the writer that holds it, or NoCaller
    fwPc,         \* where each writer stands in Write / WriteFrame
    fwSent,       \* per writer, the Write calls that have returned
    fwWire,       \* the header and payload writes on the connection, in order
    \* ---- the client's frames and the demux goroutine of one connection
    cnToSend,     \* the frames the client has yet to send, in order
    cnSock,       \* the frames sent and not yet read by the daemon
    cnDemux,      \* where the demux goroutine stands
    cnCmd,        \* where cli.RunCommand stands
    cnReads,      \* whether the command reads its stdin
    cnCancelled,  \* reqCtx is cancelled
    cnExit,       \* the Exit frame has been written
    \* ---- Server.Serve: the accept loop, the idle timer, the handlers
    svPc,         \* where Serve stands
    svResult,     \* what Serve returned
    svCtxDone,    \* the caller's ctx is cancelled
    svIdleDone,   \* idleCtx is cancelled
    svTimer,      \* s.idleTimer: armed or fired
    svLnClosed,   \* the listener is closed
    svHandlers,   \* per connection, where its handler goroutine stands
    \* ---- client.Relay: the stdin pump goroutine and the demux loop
    rlStdin,      \* what the caller's stdin has yet to give
    rlPump,       \* where the stdin pump goroutine stands
    rlSrv,        \* the daemon's frames not yet read
    rlClosed,     \* the daemon has closed its end of the connection
    rlMain,       \* where Relay's demux loop stands
    rlCode,       \* the exit code Relay returns
    rlOut,        \* what Relay wrote to stdout and stderr, in order
    \* ---- Server.Run: daemons starting and stopping on one socket path
    skFile,       \* what is at the socket path
    skPid,        \* what the PID file holds
    skPc,         \* where each daemon stands in Run
    skListening,  \* the daemons that have an open listener
    \* ---- one call of Level2.Evaluate
    l2Entries,    \* the entries of the learned policy store, in file order
    l2Segs,       \* the segments of the request
    l2Retry,      \* the request's retry flag
    l2Res,        \* the result, once Evaluate has returned
    \* ---- one call of the parser
    paArgs,       \* the pre-tokenized argument list
    paCall,       \* which entry point was called, once one was
    paRes,        \* what it returned
    \* ---- several Loggers over one audit file
    lgFile,       \* the lines of the file
    lgLogger,     \* per Logger: whether opened, its seq and prevHash
    \* ---- one call of pipeline.Execute
    pxSegs,       \* n, the number of segments of the pipeline
    pxLookup,     \* per segment: whether reg.Lookup finds its capability
    pxPc,         \* per segment worker: where it stands
    pxRunErr,     \* per segment worker: what c.Run returned
    pxWClosed,    \* per pipe: the write side is closed
    pxRClosed,    \* per pipe: the read side is closed
    firstErr,     \* Execute's firstErr
    pxCancelled,  \* the context of the workers is cancelled
    pxRecorded,   \* history: the non-nil errors given to setErr, in order
    pxReturned,   \* what Execute returned, once it has
    \* ---- the client's writers on the connection
    cwPc,         \* per writer: between frames, or between header and payload
    cwSent,       \* per writer: the frames it has written
    cwWire,       \* the writes on the connection, in order
    \* ---- Level 1 engines and the rule set over one configuration
    reCfg,        \* the rule configuration (map of CapRuleConfig)
    reSegs,       \* the segments of the request
    reRedirOut,   \* the request's HasRedirectOut
    reRetry,      \* the request's retry flag
    reResults,    \* the results of the engines built and evaluated so far
    reErrs        \* per segment, what RuleSet.Check returned, once called

polVars == <<l1Rules, pSegs, pRedirOut, pRes>>
tokVars == <<tsNow, tsTokens, tsMu, tsNext, tsPc, tsLocal, tsIssued,
             tsValidated, tsPurged>>
audVars == <<auFile, auSeq, auPrevHash, auMu, auPc, auEntry, auCalls,
             auTamper, auPrior>>

dmnVars == <<dSrv, dPc, dReq, dResult, dCmd, dStep, dLastErr, dRunCalled,
             dInvoked, dTrace, dFrame, dExits>>

fwVars == <<fwMu, fwPc, fwSent, fwWire>>
cnVars == <<cnToSend, cnSock, cnDemux, cnCmd, cnReads, cnCancelled, cnExit>>
svVars == <<svPc, svResult, svCtxDone, svIdleDone, svTimer, svLnClosed,
            svHandlers>>

rlVars == <<rlStdin, rlPump, rlSrv, rlClosed, rlMain, rlCode, rlOut>>

\* The variables of the models added after the daemon's.
skVars == <<skFile, skPid, skPc, skListening>>
l2Vars == <<l2Entries, l2Segs, l2Retry, l2Res>>
paVars == <<paArgs, paCall, paRes>>
lgVars == <<lgFile, lgLogger>>
pxVars ==
    <<pxSegs, pxLookup, pxPc, pxRunErr, pxWClosed, pxRClosed, firstErr,
      pxCancelled, pxRecorded, pxReturned>>
cwVars == <<cwPc, cwSent, cwWire>>
reVars == <<reCfg, reSegs, reRedirOut, reRetry, reResults, reErrs>>
extVars ==
    <<rlVars, skVars, l2Vars, paVars, lgVars, pxVars, cwVars, reVars>>

vars == <<polVars, tokVars, audVars, dmnVars, fwVars, cnVars, svVars, extVars>>

\* What the actions of one subsystem leave alone.
notPolVars ==
    <<tokVars, audVars, dmnVars, fwVars, cnVars, svVars, extVars>>
notTokVars ==
    <<polVars, audVars, dmnVars, fwVars, cnVars, svVars, extVars>>
notAudVars ==
    <<polVars, tokVars, dmnVars, fwVars, cnVars, svVars, extVars>>
notDmnVars ==
    <<polVars, tokVars, fwVars, cnVars, svVars, extVars>>
notFwVars ==
    <<polVars, tokVars, audVars, dmnVars, cnVars, svVars, extVars>>
notCnVars ==
    <<polVars, tokVars, audVars, dmnVars, fwVars, svVars, extVars>>
coreVars == <<polVars, tokVars, audVars, dmnVars, fwVars, cnVars, svVars>>
notRlVars ==
    <<coreVars, skVars, l2Vars, paVars, lgVars, pxVars, cwVars, reVars>>
notSkVars ==
    <<coreVars, rlVars, l2Vars, paVars, lgVars, pxVars, cwVars, reVars>>
notL2Vars ==
    <<coreVars, rlVars, skVars, paVars, lgVars, pxVars, cwVars, reVars>>
notPaVars ==
    <<coreVars, rlVars, skVars, l2Vars, lgVars, pxVars, cwVars, reVars>>
notLgVars ==
    <<coreVars, rlVars, skVars, l2Vars, paVars, pxVars, cwVars, reVars>>
notPxVars ==
    <<coreVars, rlVars, skVars, l2Vars, paVars, lgVars, cwVars, reVars>>
notCwVars ==
    <<coreVars, rlVars, skVars, l2Vars, paVars, lgVars, pxVars, reVars>>
notReVars ==
    <<coreVars, rlVars, skVars, l2Vars, paVars, lgVars, pxVars, cwVars>>
notSvVars ==
    <<polVars, tokVars, audVars, dmnVars, fwVars, cnVars, extVars>>

----------------------------------------------------------------------------
(* Bounds of the model.                                                    *)

\* Most segments in one policy request.
MaxSegs == 2

----------------------------------------------------------------------------
(* Byte strings.                                                           *)

\* Capability names (builtin/*.go Name()).
S_rm == <<"r", "m">>
S_cat == <<"c", "a", "t">>
S_git == <<"g", "i", "t">>
S_make == <<"m", "a", "k", "e">>
S_go == <<"g", "o">>

\* Arguments.
A_r == <<"-", "r">>
A_R == <<"-", "R">>
A_rf == <<"-", "r", "f">>
A_fR == <<"-", "f", "R">>
A_f == <<"-", "f">>
A_j == <<"-", "j">>
A_j4 == <<"-", "j", "4">>
A_force == <<"-", "-", "f", "o", "r", "c", "e">>
A_forceEq == <<"-", "-", "f", "o", "r", "c", "e", "=", "y">>
A_fwl == <<"-", "-", "f", "o", "r", "c", "e", "-", "w", "i", "t", "h", "-", "l", "e", "a", "s", "e">>
A_hard == <<"-", "-", "h", "a", "r", "d">>
A_dd == <<"-", "-">>
A_root == <<"/">>
A_dot == <<".">>
A_dotdot == <<".", ".">>
A_tilde == <<"~">>
A_tildeSlash == <<"~", "/">>
A_tildeX == <<"~", "/", "x">>
A_x == <<"x">>
A_xdotdot == <<"x", "/", ".", ".">>
A_push == <<"p", "u", "s", "h">>
A_reset == <<"r", "e", "s", "e", "t">>
A_checkout == <<"c", "h", "e", "c", "k", "o", "u", "t">>
A_status == <<"s", "t", "a", "t", "u", "s">>
A_build == <<"b", "u", "i", "l", "d">>
A_run == <<"r", "u", "n">>

\* strings.HasPrefix
HasPrefix(s, p) == Len(s) >= Len(p) /\ SubSeq(s, 1, Len(p)) = p

\* strings.ContainsRune
ContainsRune(s, c) == \E k \in 1..Len(s) : s[k] = c

\* The components of a path between its separators (empty ones included).
RECURSIVE SplitSlash(_)
SplitSlash(p) ==
    IF \A k \in 1..Len(p) : p[k] # "/" THEN <<p>>
    ELSE LET k == CHOOSE i \in 1..Len(p) :
                      p[i] = "/" /\ \A j \in 1..(i - 1) : p[j] # "/"
         IN  <<SubSeq(p, 1, k - 1)>> \o SplitSlash(SubSeq(p, k + 1, Len(p)))

\* Clean's walk over the components: "." and empty ones are dropped, ".."
\* removes the component before it, is dropped at the root and is kept
\* at the start of a relative path.
RECURSIVE CleanWalk(_, _, _)
CleanWalk(comps, out, rooted) ==
    IF comps = <<>> THEN out
    ELSE LET c == Head(comps)
             rest == Tail(comps)
         IN  IF c = <<>> \/ c = <<".">> THEN CleanWalk(rest, out, rooted)
             ELSE IF c = <<".", ".">> THEN
                 IF out # <<>> /\ out[Len(out)] # <<".", ".">>
                 THEN CleanWalk(rest, SubSeq(out, 1, Len(out) - 1), rooted)
                 ELSE IF rooted THEN CleanWalk(rest, out, rooted)
                 ELSE CleanWalk(rest, Append(out, c), rooted)
             ELSE CleanWalk(rest, Append(out, c), rooted)

RECURSIVE JoinSlash(_)
JoinSlash(comps) ==
    IF comps = <<>> THEN <<>>
    ELSE IF Len(comps) = 1 THEN comps[1]
    ELSE comps[1] \o <<"/">> \o JoinSlash(Tail(comps))

\* filepath.Clean on a Unix path.
Clean(p) ==
    IF p = <<>> THEN <<".">>
    ELSE LET rooted == p[1] = "/"
             body == JoinSlash(CleanWalk(SplitSlash(p), <<>>, rooted))
         IN  IF rooted THEN <<"/">> \o body
             ELSE IF body = <<>> THEN <<".">> ELSE body

----------------------------------------------------------------------------
(* cap.Tier and the built-in capabilities' base tiers.                     *)

TierRead == "read"
TierBuild == "build"
TierWrite == "write"
TierDangerous == "dangerous"
Tiers == {TierRead, TierBuild, TierWrite, TierDangerous}

\* Rm.Tier, Cat.Tier, Git.Tier (base tier), Make.Tier.
CapTier(name) ==
    IF name = S_rm THEN TierDangerous
    ELSE IF name \in {S_make, S_go} THEN TierBuild
    ELSE TierRead

----------------------------------------------------------------------------
(* policy.Result and the rule ids.                                         *)

Allow == "allow"
Deny == "deny"
Escalate == "escalate"

\* A rule id is the format string of the code with its arguments.
RuleId(fmt, name, sub) == [fmt |-> fmt, cap |-> name, sub |-> sub]
ID_rm == RuleId("deny-rm-catastrophic", <<>>, <<>>)
ID_checkout == RuleId("deny-git-checkout-all", <<>>, <<>>)
ID_safe == RuleId("allow-safe-pipeline", <<>>, <<>>)
ID_none == RuleId("", <<>>, <<>>)
ID_capFlags(name) == RuleId("deny-%s-flags", name, <<>>)
ID_subFlags(name, sub) == RuleId("deny-%s-%s-flags", name, sub)

Result(d, lvl, reason, id) ==
    [Decision |-> d, Level |-> lvl, Reason |-> reason, RuleID |-> id]

\* A Check that has no opinion returns nil.
NilResult == Result("nil", 0, "", ID_none)

----------------------------------------------------------------------------
(* Level 1: the deterministic rules.                                       *)

\* The flag matcher without the combined-short-flag case.
hasAnyFlagExactOnly(args, flags) ==
    \E i \in 1..Len(args) : \E j \in 1..Len(flags) : args[i] = flags[j]

hasAnyFlag(args, flags) ==
    \E i \in 1..Len(args) :
        LET arg == args[i] IN
        /\ arg # <<>>
        /\ arg[1] = "-"
        /\ \E j \in 1..Len(flags) :
               LET flag == flags[j] IN
               \/ arg = flag
               \/ /\ Len(flag) = 2 /\ flag[1] = "-" /\ flag[2] # "-"
                  /\ Len(arg) > 2 /\ arg[1] = "-" /\ arg[2] # "-"
                  /\ ContainsRune(Tail(arg), flag[2])
               \/ /\ Len(flag) > 2 /\ SubSeq(flag, 1, 2) = <<"-", "-">>
                  /\ HasPrefix(arg, flag \o <<"=">>)

\* The targets checkRmCatastrophic refuses, for one argument.
RmTargetBlocked(arg) ==
    /\ arg # <<>>
    /\ arg[1] # "-"
    /\ \/ Clean(arg) \in {<<"/">>, <<".">>, <<".", ".">>}
       \/ arg = <<"~">>
       \/ HasPrefix(arg, <<"~", "/">>)

checkRmCatastrophic(segs) ==
    IF \E i \in 1..Len(segs) :
           /\ segs[i].CapName = S_rm
           /\ hasAnyFlag(segs[i].Args, <<A_r, A_R>>)
           /\ \E k \in 1..Len(segs[i].Args) : RmTargetBlocked(segs[i].Args[k])
    THEN Result(Deny, 1, "permanently blocked", ID_rm)
    ELSE NilResult

\* args[1:] of the code is SubSeq(args, 2, Len(args)); i of the code's
\* loop is k - 1 here, so seg.Args[i+2] is rest[k + 1].
GitCheckoutAllArgs(args) ==
    /\ Len(args) > 0
    /\ args[1] = A_checkout
    /\ LET rest == Tail(args) IN
       \E k \in 1..Len(rest) :
           \/ Clean(rest[k]) = <<".">>
           \/ /\ rest[k] = A_dd
              /\ k < Len(rest)
              /\ Clean(rest[k + 1]) = <<".">>

checkGitCheckoutAll(segs) ==
    IF \E i \in 1..Len(segs) :
           segs[i].CapName = S_git /\ GitCheckoutAllArgs(segs[i].Args)
    THEN Result(Deny, 1, "config rule", ID_checkout)
    ELSE NilResult

\* checkSafePipeline, with the one that auto-allows single segments only
\* before it.
checkSafeSingleSegment(segs, hasRedirectOut) ==
    IF ~hasRedirectOut /\ Len(segs) = 1 /\ segs[1].Tier = TierRead
    THEN Result(Allow, 1, "all segments are read-only", ID_safe)
    ELSE NilResult

checkSafePipeline(segs, hasRedirectOut) ==
    IF /\ ~hasRedirectOut
       /\ Len(segs) > 0
       /\ \A i \in 1..Len(segs) : segs[i].Tier = TierRead
    THEN Result(Allow, 1, "all segments are read-only", ID_safe)
    ELSE NilResult

\* The two closures compileConfigRules builds.
checkCapFlags(r, segs) ==
    IF \E i \in 1..Len(segs) :
           segs[i].CapName = r.cap /\ hasAnyFlag(segs[i].Args, r.flags)
    THEN Result(Deny, 1, "config rule", ID_capFlags(r.cap))
    ELSE NilResult

checkSubFlags(r, segs) ==
    IF \E i \in 1..Len(segs) :
           /\ segs[i].CapName = r.cap
           /\ Len(segs[i].Args) > 0
           /\ segs[i].Args[1] = r.sub
           /\ hasAnyFlag(Tail(segs[i].Args), r.flags)
    THEN Result(Deny, 1, "config rule", ID_subFlags(r.cap, r.sub))
    ELSE NilResult

\* A policy.Rule: its id, its Bypassable flag and what its Check is.
Rule(id, byp, kind, name, sub, flags) ==
    [ID |-> id, Bypassable |-> byp, kind |-> kind,
     cap |-> name, sub |-> sub, flags |-> flags]

\* The hardcoded rule, with the Bypassable flag set by mistake.
RuleRmCatastrophicBypassable ==
    Rule(ID_rm, TRUE, "rm", <<>>, <<>>, <<>>)

RuleRmCatastrophic == Rule(ID_rm, FALSE, "rm", <<>>, <<>>, <<>>)
RuleGitCheckoutAll == Rule(ID_checkout, TRUE, "checkout", <<>>, <<>>, <<>>)
RuleSafePipeline == Rule(ID_safe, FALSE, "safe", <<>>, <<>>, <<>>)
RuleCapFlags(name, flags) ==
    Rule(ID_capFlags(name), TRUE, "capflags", name, <<>>, flags)
RuleSubFlags(name, sub, flags) ==
    Rule(ID_subFlags(name, sub), TRUE, "subflags", name, sub, flags)

\* r.Check(req)
Check(r, segs, hasRedirectOut) ==
    CASE r.kind = "rm" -> checkRmCatastrophic(segs)
      [] r.kind = "checkout" -> checkGitCheckoutAll(segs)
      [] r.kind = "safe" -> checkSafePipeline(segs, hasRedirectOut)
      [] r.kind = "capflags" -> checkCapFlags(r, segs)
      [] r.kind = "subflags" -> checkSubFlags(r, segs)

\* Level1.Evaluate without the test that skips bypassable rules on retry.
RECURSIVE EvalWithoutSkip(_, _, _, _, _)
EvalWithoutSkip(rules, k, segs, hasRedirectOut, retry) ==
    IF k > Len(rules)
    THEN Result(Escalate, 1, "no deterministic rule matched", ID_none)
    ELSE LET res == Check(rules[k], segs, hasRedirectOut)
         IN  IF res # NilResult THEN res
             ELSE EvalWithoutSkip(rules, k + 1, segs, hasRedirectOut, retry)

\* Level1.Evaluate: the first rule, not skipped, whose Check has an opinion.
RECURSIVE EvalFrom(_, _, _, _, _)
EvalFrom(rules, k, segs, hasRedirectOut, retry) ==
    IF k > Len(rules)
    THEN Result(Escalate, 1, "no deterministic rule matched", ID_none)
    ELSE IF rules[k].Bypassable /\ retry
    THEN EvalFrom(rules, k + 1, segs, hasRedirectOut, retry)
    ELSE LET res == Check(rules[k], segs, hasRedirectOut)
         IN  IF res # NilResult THEN res
             ELSE EvalFrom(rules, k + 1, segs, hasRedirectOut, retry)

Level1Evaluate(rules, segs, hasRedirectOut, retry) ==
    EvalFrom(rules, 1, segs, hasRedirectOut, retry)

----------------------------------------------------------------------------
(* The rule configuration (rules.CapRuleConfig) and NewLevel1.             *)

NoSubcommands == [s \in {} |-> <<>>]

\* config.DefaultRules
DefaultRules ==
    [c \in {S_make, S_git} |->
        IF c = S_make
        THEN [RejectFlags |-> <<A_j>>, Subcommands |-> NoSubcommands]
        ELSE [RejectFlags |-> <<>>,
              Subcommands |->
                  [s \in {A_push, A_reset} |->
                      IF s = A_push THEN <<A_force, A_f, A_fwl>>
                      ELSE <<A_hard>>]]]

\* A configuration file that rejects a flag of a read-tier capability.
CatRules ==
    [c \in {S_cat} |->
        [RejectFlags |-> <<A_f>>, Subcommands |-> NoSubcommands]]

RuleConfigs == {DefaultRules, CatRules}

\* The orders in which a range over a Go map with key set S can run.
Perms(S) ==
    {f \in [1..Cardinality(S) -> S] :
        \A i, j \in 1..Cardinality(S) : f[i] = f[j] => i = j}

\* For every capability of cfg, an iteration order of its Subcommands map.
SubOrders(cfg) ==
    {so \in [DOMAIN cfg ->
                UNION {Perms(DOMAIN cfg[c].Subcommands) : c \in DOMAIN cfg}] :
        \A c \in DOMAIN cfg : so[c] \in Perms(DOMAIN cfg[c].Subcommands)}

RECURSIVE SubRules(_, _, _)
SubRules(name, subcommands, order) ==
    IF order = <<>> THEN <<>>
    ELSE (IF Len(subcommands[Head(order)]) > 0
          THEN <<RuleSubFlags(name, Head(order), subcommands[Head(order)])>>
          ELSE <<>>)
         \o SubRules(name, subcommands, Tail(order))

compileConfigRules(name, cfg, subOrder) ==
    (IF Len(cfg.RejectFlags) > 0
     THEN <<RuleCapFlags(name, cfg.RejectFlags)>>
     ELSE <<>>)
    \o SubRules(name, cfg.Subcommands, subOrder)

RECURSIVE ConfigRules(_, _, _)
ConfigRules(cfg, capOrder, subOrders) ==
    IF capOrder = <<>> THEN <<>>
    ELSE compileConfigRules(Head(capOrder), cfg[Head(capOrder)],
                            subOrders[Head(capOrder)])
         \o ConfigRules(cfg, Tail(capOrder), subOrders)

\* capOrder and subOrders are the orders the two map ranges ran in.
NewLevel1(cfg, capOrder, subOrders) ==
    <<RuleRmCatastrophic>>
    \o ConfigRules(cfg, capOrder, subOrders)
    \o <<RuleGitCheckoutAll, RuleSafePipeline>>

\* Every rule list NewLevel1 can build from a configuration.
Level1Engines ==
    UNION {{NewLevel1(cfg, co, so) : co \in Perms(DOMAIN cfg),
                                     so \in SubOrders(cfg)} :
           cfg \in RuleConfigs}

----------------------------------------------------------------------------
(* The requests the Level 1 engine is evaluated on.                        *)

\* policy.Segment, with the tier evaluatePolicy gives it (the base tier).
Seg(name, args) == [CapName |-> name, Args |-> args, Tier |-> CapTier(name)]

RmFlagArgs == {A_r, A_R, A_rf, A_fR, A_f}
RmTargetArgs == {A_root, A_dot, A_dotdot, A_tilde, A_tildeSlash, A_tildeX,
                 A_x, A_xdotdot}

RmSegs ==
    UNION {{Seg(S_rm, <<f, t>>), Seg(S_rm, <<t, f>>)} :
           f \in RmFlagArgs, t \in RmTargetArgs}

OtherSegs ==
    {Seg(S_cat, <<A_x>>), Seg(S_cat, <<A_f, A_x>>),
     Seg(S_git, <<A_push, A_force>>), Seg(S_git, <<A_push, A_forceEq>>),
     Seg(S_git, <<A_push>>), Seg(S_git, <<A_reset, A_hard>>),
     Seg(S_git, <<A_checkout, A_dot>>), Seg(S_git, <<A_checkout, A_dd, A_dot>>),
     Seg(S_git, <<A_checkout, A_x>>), Seg(S_git, <<A_status>>),
     Seg(S_make, <<A_j4>>), Seg(S_make, <<A_j>>), Seg(S_make, <<A_x>>)}

FullSegs == RmSegs \cup OtherSegs

\* The segments that fill the other positions of a longer request.
FillerSegs == {Seg(S_cat, <<A_x>>), Seg(S_make, <<A_x>>),
               Seg(S_git, <<A_push, A_force>>)}

PolicySegLists ==
    UNION {{[i \in 1..n |-> IF i = p THEN s ELSE f[i]] :
                s \in FullSegs, f \in [1..n -> FillerSegs], p \in 1..n} :
           n \in 1..MaxSegs}

NotEvaluated == Result("not evaluated", 0, "", ID_none)

InitPolicy ==
    /\ l1Rules \in Level1Engines
    /\ pSegs \in PolicySegLists
    /\ pRedirOut \in BOOLEAN
    /\ pRes = [r \in BOOLEAN |-> NotEvaluated]

\* One call of Level1.Evaluate, with Request.Retry = retry.
L1Evaluate(retry) ==
    /\ pRes[retry] = NotEvaluated
    /\ pRes' = [pRes EXCEPT
                   ![retry] = Level1Evaluate(l1Rules, pSegs, pRedirOut, retry)]
    /\ UNCHANGED <<l1Rules, pSegs, pRedirOut>>
    /\ UNCHANGED notPolVars

NextPolicy == \E retry \in BOOLEAN : L1Evaluate(retry)

----------------------------------------------------------------------------
(* Claims about the Level 1 engine.                                        *)

\* The recursive flags and the targets of the catastrophic-removal rule,
\* as the rule is documented: -r or -R alone or combined with other short
\* flags; /, ., .., ~ and ~/...
RecursiveFlagArgs == {A_r, A_R, A_rf, A_fR}
CatastrophicTargets == {A_root, A_dot, A_dotdot, A_tilde, A_tildeSlash, A_tildeX}

CatastrophicSeg(seg) ==
    /\ seg.CapName = S_rm
    /\ \E k \in 1..Len(seg.Args) : seg.Args[k] \in RecursiveFlagArgs
    /\ \E k \in 1..Len(seg.Args) : seg.Args[k] \in CatastrophicTargets

CatastrophicRequest(segs) == \E i \in 1..Len(segs) : CatastrophicSeg(segs[i])

NonBypassableIds == {l1Rules[k].ID : k \in {j \in 1..Len(l1Rules) : ~l1Rules[j].Bypassable}}

\* The evaluation with this retry flag was decided by a non-bypassable rule.
NonBypassableFired(retry) ==
    pRes[retry] # NotEvaluated /\ pRes[retry].RuleID \in NonBypassableIds

RmCatastrophicDenied ==
    \A retry \in BOOLEAN :
        (pRes[retry] # NotEvaluated /\ CatastrophicRequest(pSegs))
            => (pRes[retry].Decision = Deny /\ pRes[retry].RuleID = ID_rm)

\* C2, as stated: a request with a catastrophic rm segment is denied by
\* deny-rm-catastrophic with and without retry, and whenever a
\* non-bypassable rule fires (in either evaluation) the two evaluations
\* return the same Decision.
C2_Original ==
    /\ RmCatastrophicDenied
    /\ (/\ pRes[TRUE] # NotEvaluated
        /\ pRes[FALSE] # NotEvaluated
        /\ (NonBypassableFired(TRUE) \/ NonBypassableFired(FALSE)))
           => pRes[TRUE].Decision = pRes[FALSE].Decision

\* C2, amended: a request with a catastrophic rm segment is denied by
\* deny-rm-catastrophic with and without retry, and whenever a
\* non-bypassable rule decides the evaluation with retry=false, the
\* evaluation with retry=true returns the same Decision and rule id.
C2_RmCatastrophicNotBypassable ==
    /\ RmCatastrophicDenied
    /\ (/\ pRes[TRUE] # NotEvaluated
        /\ NonBypassableFired(FALSE))
           => (/\ pRes[TRUE].Decision = pRes[FALSE].Decision
               /\ pRes[TRUE].RuleID = pRes[FALSE].RuleID)

\* Both evaluations of a request with rm -rf / ran, behind a filler segment.
C2_Witness ==
    /\ Len(pSegs) = 2
    /\ pSegs[2] = Seg(S_rm, <<A_rf, A_root>>)
    /\ pRes[TRUE].Decision = Deny
    /\ pRes[FALSE].Decision = Deny

\* The rules that are not skipped with this retry flag and whose Check
\* returns a result on the request, by their position in the engine.
Opining(retry) ==
    {k \in 1..Len(l1Rules) :
        /\ ~(l1Rules[k].Bypassable /\ retry)
        /\ Check(l1Rules[k], pSegs, pRedirOut) # NilResult}

\* Every segment has tier read and there is no output redirect.
SafeRequest ==
    /\ ~pRedirOut
    /\ \A i \in 1..Len(pSegs) : pSegs[i].Tier = TierRead

\* C13 as stated: for every request whose segments all have tier read and
\* that has no output redirect, Level1.Evaluate returns Allow.
C13_Original ==
    \A retry \in BOOLEAN :
        (pRes[retry] # NotEvaluated /\ SafeRequest)
            => pRes[retry].Decision = Allow

\* C13, amended: for every request with at least one segment whose
\* segments all have tier read and that has no output redirect,
\* Level1.Evaluate returns Allow by allow-safe-pipeline unless a deny rule
\* that is not skipped fires on it, and then it returns Deny.
C13_SafePipelineAllowed ==
    \A retry \in BOOLEAN :
        (pRes[retry] # NotEvaluated /\ SafeRequest /\ pSegs # <<>>)
            => IF \E k \in Opining(retry) : l1Rules[k].ID # ID_safe
               THEN pRes[retry].Decision = Deny
               ELSE /\ pRes[retry].Decision = Allow
                    /\ pRes[retry].RuleID = ID_safe

\* Two read-tier segments: denied by a config rule without retry, allowed
\* by allow-safe-pipeline with it.
C13_Witness ==
    /\ SafeRequest
    /\ Len(pSegs) = 2
    /\ pRes[FALSE].Decision = Deny
    /\ pRes[TRUE].Decision = Allow
    /\ pRes[TRUE].RuleID = ID_safe

\* The least index of a non-empty set of rule positions.
FirstOf(ks) == CHOOSE k \in ks : \A j \in ks : k <= j

\* C14: when Level 1 denies a request with retry=false and no
\* non-bypassable deny rule fires on it, the evaluation with retry=true
\* does not return Deny; and the result of every evaluation is the result
\* of the first rule, not skipped, that returns one, Escalate when none does.
C14_RetryBypassesBypassable ==
    /\ (/\ pRes[FALSE] # NotEvaluated
        /\ pRes[TRUE] # NotEvaluated
        /\ pRes[FALSE].Decision = Deny
        /\ ~\E k \in 1..Len(l1Rules) :
               /\ ~l1Rules[k].Bypassable
               /\ Check(l1Rules[k], pSegs, pRedirOut).Decision = Deny)
           => pRes[TRUE].Decision # Deny
    /\ \A retry \in BOOLEAN :
           pRes[retry] # NotEvaluated
               => IF Opining(retry) = {}
                  THEN pRes[retry].Decision = Escalate
                  ELSE pRes[retry] = Check(l1Rules[FirstOf(Opining(retry))],
                                           pSegs, pRedirOut)

\* make -j4 behind a filler: denied by a config rule without retry, and
\* with retry no rule has an opinion.
C14_Witness ==
    /\ pSegs = <<Seg(S_make, <<A_x>>), Seg(S_make, <<A_j4>>)>>
    /\ pRes[FALSE].Decision = Deny
    /\ pRes[FALSE].RuleID = ID_capFlags(S_make)
    /\ pRes[TRUE].Decision = Escalate

----------------------------------------------------------------------------
(* The approval-token store (policy.TokenStore).                           *)


\* Most calls of Issue, Validate and Purge together in one behaviour.
MaxCalls == 4

\* The store's TTL in clock units (DefaultTokenTTL is ten minutes).
DefaultTokenTTL == 1

\* The last clock reading: one step past the expiry of a token issued one
\* step after the start.
MaxTime == DefaultTokenTTL + 1

TokenCallers == {"c1", "c2"}
NoCaller == "none"

\* The argument vectors tokens are issued for and presented with.
TokenArgs == {<<S_git, A_push>>, <<S_git, A_status>>}

\* A token string no Issue call has returned.
UnknownToken == 0

\* time.Time.After and slices.Equal, as Validate and Purge use them.
NotBefore(t, u) == t >= u
After(t, u) == t > u
SameLength(a, b) == Len(a) = Len(b)
SlicesEqual(a, b) ==
    /\ Len(a) = Len(b)
    /\ \A i \in 1..Len(a) : a[i] = b[i]

\* s.mu.Lock() returns only when no caller holds the mutex.
NeverLocked == TRUE
MutexFree == tsMu = NoCaller

MapDelete(m, keys) == [k \in (DOMAIN m) \ keys |-> m[k]]
MapPut(m, k, v) == [x \in (DOMAIN m) \cup {k} |-> IF x = k THEN v ELSE m[x]]

NoLocals == [tok |-> UnknownToken, args |-> <<>>, at |-> 0,
             entryArgs |-> <<>>, entryExpires |-> 0]

\* The calls made so far, returned or not.
CallsStarted ==
    (tsNext - 1) + Len(tsValidated) + Len(tsPurged)
        + Cardinality({c \in TokenCallers :
                         tsPc[c] \in {"found", "purge"}})

InitTokens ==
    /\ tsNow = 0
    /\ tsTokens = <<>>
    /\ tsMu = NoCaller
    /\ tsNext = 1
    /\ tsPc = [c \in TokenCallers |-> "idle"]
    /\ tsLocal = [c \in TokenCallers |-> NoLocals]
    /\ tsIssued = <<>>
    /\ tsValidated = <<>>
    /\ tsPurged = <<>>

\* The clock advances; it never goes back (time.Now carries a monotonic
\* reading and After compares it).
Tick ==
    /\ tsNow < MaxTime
    /\ tsNow' = tsNow + 1
    /\ UNCHANGED <<tsTokens, tsMu, tsNext, tsPc, tsLocal, tsIssued,
                   tsValidated, tsPurged>>
    /\ UNCHANGED notTokVars

\* Issue up to s.mu.Lock(): the token is drawn (128 random bits, taken to
\* be fresh) and the clock is read before the mutex is taken.
IssueBegin(c, args) ==
    /\ tsPc[c] = "idle"
    /\ CallsStarted < MaxCalls
    /\ tsLocal' = [tsLocal EXCEPT ![c] =
                      [NoLocals EXCEPT !.tok = tsNext, !.args = args,
                                       !.at = tsNow]]
    /\ tsNext' = tsNext + 1
    /\ tsPc' = [tsPc EXCEPT ![c] = "issue"]
    /\ UNCHANGED <<tsNow, tsTokens, tsMu, tsIssued, tsValidated, tsPurged>>
    /\ UNCHANGED notTokVars

\* Issue's critical section: the one map store, then Unlock and return.
IssueStore(c) ==
    /\ tsPc[c] = "issue"
    /\ MutexFree
    /\ LET entry == [Args |-> tsLocal[c].args,
                     ExpiresAt |-> tsLocal[c].at + DefaultTokenTTL]
       IN /\ tsTokens' = MapPut(tsTokens, tsLocal[c].tok, entry)
          /\ tsIssued' = MapPut(tsIssued, tsLocal[c].tok, entry)
    /\ tsPc' = [tsPc EXCEPT ![c] = "idle"]
    /\ tsLocal' = [tsLocal EXCEPT ![c] = NoLocals]
    /\ UNCHANGED <<tsNow, tsMu, tsNext, tsValidated, tsPurged>>
    /\ UNCHANGED notTokVars

\* Validate from s.mu.Lock() to the map lookup: the caller takes the mutex
\* and reads s.tokens[token]; an absent token is an error (and the deferred
\* Unlock runs).
ValidateLookup(c, tok, args) ==
    /\ tsPc[c] = "idle"
    /\ CallsStarted < MaxCalls
    /\ MutexFree
    /\ IF tok \in DOMAIN tsTokens
       THEN /\ tsLocal' = [tsLocal EXCEPT ![c] =
                   [NoLocals EXCEPT !.tok = tok, !.args = args,
                                    !.entryArgs = tsTokens[tok].Args,
                                    !.entryExpires = tsTokens[tok].ExpiresAt]]
            /\ tsMu' = c
            /\ tsPc' = [tsPc EXCEPT ![c] = "found"]
            /\ UNCHANGED tsValidated
       ELSE /\ tsValidated' =
                   Append(tsValidated,
                          [tok |-> tok, args |-> args, ok |-> FALSE,
                           err |-> "unknown", at |-> tsNow])
            /\ UNCHANGED <<tsMu, tsPc, tsLocal>>
    /\ UNCHANGED <<tsNow, tsTokens, tsNext, tsIssued, tsPurged>>
    /\ UNCHANGED notTokVars

\* Validate from delete(s.tokens, token) to the return: the entry is
\* deleted before either check, the expiry check reads the clock afresh,
\* then the arguments are compared and the deferred Unlock runs.
ValidateConsume(c) ==
    /\ tsPc[c] = "found"
    /\ tsTokens' = MapDelete(tsTokens, {tsLocal[c].tok})
    /\ LET err == IF After(tsNow, tsLocal[c].entryExpires) THEN "expired"
                  ELSE IF ~SlicesEqual(tsLocal[c].args, tsLocal[c].entryArgs)
                       THEN "mismatch"
                  ELSE ""
       IN tsValidated' =
              Append(tsValidated,
                     [tok |-> tsLocal[c].tok, args |-> tsLocal[c].args,
                      ok |-> (err = ""), err |-> err, at |-> tsNow])
    /\ tsMu' = NoCaller
    /\ tsPc' = [tsPc EXCEPT ![c] = "idle"]
    /\ tsLocal' = [tsLocal EXCEPT ![c] = NoLocals]
    /\ UNCHANGED <<tsNow, tsNext, tsIssued, tsPurged>>
    /\ UNCHANGED notTokVars

\* Purge up to s.mu.Lock(): the clock is read before the mutex is taken.
PurgeBegin(c) ==
    /\ tsPc[c] = "idle"
    /\ CallsStarted < MaxCalls
    /\ tsLocal' = [tsLocal EXCEPT ![c] = [NoLocals EXCEPT !.at = tsNow]]
    /\ tsPc' = [tsPc EXCEPT ![c] = "purge"]
    /\ UNCHANGED <<tsNow, tsTokens, tsMu, tsNext, tsIssued, tsValidated,
                   tsPurged>>
    /\ UNCHANGED notTokVars

\* Purge's critical section: the sweep over the map, then Unlock.
PurgeSweep(c) ==
    /\ tsPc[c] = "purge"
    /\ MutexFree
    /\ LET expired == {t \in DOMAIN tsTokens :
                          After(tsLocal[c].at, tsTokens[t].ExpiresAt)}
       IN /\ tsTokens' = MapDelete(tsTokens, expired)
          /\ tsPurged' = Append(tsPurged,
                                [at |-> tsLocal[c].at,
                                 before |-> DOMAIN tsTokens,
                                 after |-> (DOMAIN tsTokens) \ expired])
    /\ tsPc' = [tsPc EXCEPT ![c] = "idle"]
    /\ tsLocal' = [tsLocal EXCEPT ![c] = NoLocals]
    /\ UNCHANGED <<tsNow, tsMu, tsNext, tsIssued, tsValidated>>
    /\ UNCHANGED notTokVars

NextTokens ==
    \/ Tick
    \/ \E c \in TokenCallers, args \in TokenArgs : IssueBegin(c, args)
    \/ \E c \in TokenCallers : IssueStore(c)
    \/ \E c \in TokenCallers, tok \in 0..MaxCalls, args \in TokenArgs :
         /\ tok < tsNext
         /\ ValidateLookup(c, tok, args)
    \/ \E c \in TokenCallers : ValidateConsume(c)
    \/ \E c \in TokenCallers : PurgeBegin(c)
    \/ \E c \in TokenCallers : PurgeSweep(c)

----------------------------------------------------------------------------
(* Claims about the approval-token store.                                  *)

SuccessfulValidations(tok) ==
    {i \in 1..Len(tsValidated) : tsValidated[i].tok = tok /\ tsValidated[i].ok}

\* C5: for every issued token, over every interleaving of Issue, Validate
\* and Purge calls by concurrent callers, at most one Validate call
\* presenting that token returns success.
C5_ValidateAtMostOnce ==
    \A tok \in DOMAIN tsIssued : Cardinality(SuccessfulValidations(tok)) <= 1

\* C5 witness: a token was validated successfully, and a later Validate
\* call presented the same token with the same arguments.
C5_Witness ==
    \E i, j \in 1..Len(tsValidated) :
        /\ i < j
        /\ tsValidated[i].tok = tsValidated[j].tok
        /\ tsValidated[i].args = tsValidated[j].args
        /\ tsValidated[i].ok

\* The Validate calls that found their token in the store.
FoundValidations ==
    {i \in 1..Len(tsValidated) : tsValidated[i].err # "unknown"}

C7_ExpiredFailsAndPurgeExact ==
    /\ \A i \in FoundValidations :
           tsValidated[i].at > tsIssued[tsValidated[i].tok].ExpiresAt
               => /\ ~tsValidated[i].ok
                  /\ tsValidated[i].tok \notin DOMAIN tsTokens
    /\ \A k \in 1..Len(tsPurged) :
           /\ tsPurged[k].after \subseteq tsPurged[k].before
           /\ \A t \in tsPurged[k].before :
                  t \in tsPurged[k].after
                      <=> tsIssued[t].ExpiresAt >= tsPurged[k].at

\* C7 witness: a stored token was presented with its own arguments after
\* its expiry and failed, and a Purge call removed a token.
C7_Witness ==
    /\ \E i \in FoundValidations :
           /\ tsValidated[i].at > tsIssued[tsValidated[i].tok].ExpiresAt
           /\ tsValidated[i].args = tsIssued[tsValidated[i].tok].Args
           /\ tsValidated[i].err = "expired"
    /\ \E k \in 1..Len(tsPurged) : tsPurged[k].before # tsPurged[k].after

----------------------------------------------------------------------------
(* The audit log: audit.Logger, audit.Verify and the log file.             *)
(*                                                                         *)
(* A line of the file is the Entry it decodes to.  Time, Duration, Cwd,    *)
(* Justification and SafetyArg enter the hash the way Pipeline does and    *)
(* are not carried.  SHA-256 is taken to be collision-free: the hash of an *)
(* entry is the marshalled entry itself, Hash field empty.                 *)

\* Most Log calls in one behaviour.
MaxLogs == 3

AuditCallers == {"w1", "w2"}

genesisHash == <<"doit-genesis">>

computeHashIgnoringExitCode(e) ==
    <<e.Seq, e.PrevHash, e.Pipeline, e.Segments, e.Tiers, e.Retry,
      e.Error, e.PolicyLevel, e.PolicyResult, e.PolicyRuleID>>

computeHash(e) ==
    <<e.Seq, e.PrevHash, e.Pipeline, e.Segments, e.Tiers, e.Retry,
      e.ExitCode, e.Error, e.PolicyLevel, e.PolicyResult, e.PolicyRuleID>>

\* strings.Join(args, " ").
RECURSIVE JoinSpace(_)
JoinSpace(args) ==
    IF args = <<>> THEN <<>>
    ELSE IF Len(args) = 1 THEN args[1]
    ELSE args[1] \o <<" ">> \o JoinSpace(Tail(args))

\* audit.LogOptions, and the options of a call that carries none.
LogOptions(level, result, ruleID) ==
    [PolicyLevel |-> level, PolicyResult |-> result, PolicyRuleID |-> ruleID]
NoLogOptions == LogOptions(0, "", ID_none)

\* The arguments of one Log call.
LogCall(pipeline, segments, tiers, exitCode, errMsg, retry, opts) ==
    [Pipeline |-> pipeline, Segments |-> segments, Tiers |-> tiers,
     ExitCode |-> exitCode, Error |-> errMsg, Retry |-> retry, Opts |-> opts]

\* The entry Log builds once it has advanced l.seq, its hash still empty.
NewEntry(seq, prevHash, call) ==
    [Seq |-> seq, PrevHash |-> prevHash, Pipeline |-> call.Pipeline,
     Segments |-> call.Segments, Tiers |-> call.Tiers, Retry |-> call.Retry,
     ExitCode |-> call.ExitCode, Error |-> call.Error,
     PolicyLevel |-> 0, PolicyResult |-> "", PolicyRuleID |-> ID_none,
     Hash |-> <<>>]

\* The policy fields Log copies from its LogOptions into the entry.
WithLogOptions(e, opts) ==
    [e EXCEPT !.PolicyLevel = opts.PolicyLevel,
              !.PolicyResult = opts.PolicyResult,
              !.PolicyRuleID = opts.PolicyRuleID]

\* entry.Hash = computeHash(entry).
Hashed(e) == [e EXCEPT !.Hash = computeHash(e)]

\* The entry a Log call builds when the Logger stands at (seq, prevHash).
LogEntry(seq, prevHash, call) ==
    Hashed(WithLogOptions(NewEntry(seq + 1, prevHash, call), call.Opts))

\* audit.Verify: the first line that breaks the chain and how, or line 0
\* when the chain is intact.
RECURSIVE VerifyFrom(_, _, _, _)
VerifyFrom(lines, i, expectedPrev, prevSeq) ==
    IF i > Len(lines) THEN [Line |-> 0, Err |-> ""]
    ELSE IF lines[i].Seq # prevSeq + 1
         THEN [Line |-> i, Err |-> "sequence gap"]
    ELSE IF lines[i].PrevHash # expectedPrev
         THEN [Line |-> i, Err |-> "prev_hash mismatch"]
    ELSE IF lines[i].Hash # computeHash(lines[i])
         THEN [Line |-> i, Err |-> "hash mismatch"]
    ELSE VerifyFrom(lines, i + 1, lines[i].Hash, lines[i].Seq)

Verify(lines) == VerifyFrom(lines, 1, genesisHash, 0)

\* The Log calls the callers make.
AuditInputs ==
    {LogCall(JoinSpace(<<S_cat, A_x>>), <<S_cat>>, <<TierRead>>, 0, "",
             FALSE, LogOptions(1, Allow, ID_safe)),
     LogCall(JoinSpace(<<S_rm, A_rf, A_root>>), <<S_rm>>, <<TierDangerous>>,
             1, "denied", TRUE, LogOptions(1, Deny, ID_rm))}

NoEntry == Hashed(NewEntry(0, genesisHash, LogCall(<<>>, <<>>, <<>>, 0, "",
                                                    FALSE, NoLogOptions)))
NoTamper == [Kind |-> "none", Line |-> 0, Field |-> ""]

\* A line json.Unmarshal rejects (a line cut short by a crash, an edit).
MalformedLine == [Malformed |-> TRUE]
IsMalformed(line) == "Malformed" \in DOMAIN line

\* NewLogger: the cursor a Logger starts from, with the NewLogger that
\* always starts from the genesis before it.  The last line of the file
\* gives the sequence number and the previous hash.
ResumeFromGenesis(lines) == [Seq |-> 0, PrevHash |-> genesisHash]
ResumeCursor(lines) ==
    IF lines = <<>> THEN [Seq |-> 0, PrevHash |-> genesisHash]
    ELSE IF IsMalformed(lines[Len(lines)])
         THEN [Seq |-> 0, PrevHash |-> genesisHash]
    ELSE [Seq |-> lines[Len(lines)].Seq, PrevHash |-> lines[Len(lines)].Hash]

\* What auPrior holds before any NewLogger on an existing file.
NoPrior == [Opened |-> FALSE, Clean |-> FALSE,
            Seq |-> 0, PrevHash |-> genesisHash,
            NewSeq |-> 0, NewPrevHash |-> genesisHash]

\* A Logger from NewLogger over a file that does not exist yet.
InitAudit ==
    /\ auFile = <<>>
    /\ auSeq = 0
    /\ auPrevHash = genesisHash
    /\ auMu = NoCaller
    /\ auPc = [c \in AuditCallers |-> "idle"]
    /\ auEntry = [c \in AuditCallers |-> NoEntry]
    /\ auCalls = <<>>
    /\ auTamper = NoTamper
    /\ auPrior = NoPrior

\* l.mu.Lock() returns only when no caller holds the mutex.
LoggerFree == auMu = NoCaller

\* Log from l.mu.Lock() to l.prevHash = entry.Hash: the sequence number and
\* the previous hash advance before anything is written.
LogAdvance(c, call) ==
    /\ auTamper = NoTamper
    /\ auPc[c] = "idle"
    /\ Len(auCalls) + Cardinality({d \in AuditCallers : auPc[d] = "write"})
         < MaxLogs
    /\ LoggerFree
    /\ auMu' = c
    /\ LET entry == LogEntry(auSeq, auPrevHash, call)
       IN /\ auSeq' = entry.Seq
          /\ auPrevHash' = entry.Hash
          /\ auEntry' = [auEntry EXCEPT ![c] = entry]
    /\ auPc' = [auPc EXCEPT ![c] = "write"]
    /\ UNCHANGED <<auFile, auCalls, auTamper, auPrior>>
    /\ UNCHANGED notAudVars

\* Log from json.Marshal to the return: the line is appended, unless
\* os.OpenFile or f.Write fails, and the deferred Unlock runs.
LogWrite(c, written) ==
    /\ auPc[c] = "write"
    /\ auFile' = IF written THEN Append(auFile, auEntry[c]) ELSE auFile
    /\ auCalls' = Append(auCalls, [Seq |-> auEntry[c].Seq,
                                   Written |-> written])
    /\ auMu' = NoCaller
    /\ auPc' = [auPc EXCEPT ![c] = "idle"]
    /\ auEntry' = [auEntry EXCEPT ![c] = NoEntry]
    /\ UNCHANGED <<auSeq, auPrevHash, auTamper, auPrior>>
    /\ UNCHANGED notAudVars

\* NewLogger on the file the Logger wrote, no Log call being under way:
\* the new Logger takes the place of the old one (a process restart).
Reopen ==
    /\ auTamper = NoTamper
    /\ \A c \in AuditCallers : auPc[c] = "idle"
    /\ auSeq' = ResumeCursor(auFile).Seq
    /\ auPrevHash' = ResumeCursor(auFile).PrevHash
    /\ auPrior' = [Opened |-> TRUE,
                   Clean |-> \A i \in 1..Len(auCalls) : auCalls[i].Written,
                   Seq |-> auSeq, PrevHash |-> auPrevHash,
                   NewSeq |-> auSeq', NewPrevHash |-> auPrevHash']
    /\ UNCHANGED <<auFile, auMu, auPc, auEntry, auCalls, auTamper>>
    /\ UNCHANGED notAudVars

\* The values an editor of the file may put into a field.
TamperFields ==
    {"Seq", "PrevHash", "Pipeline", "Segments", "Tiers", "Retry", "ExitCode",
     "Error", "PolicyLevel", "PolicyResult", "PolicyRuleID", "Hash"}

TamperHashes ==
    {genesisHash, <<"forged">>} \cup {auFile[i].Hash : i \in 1..Len(auFile)}

TamperValues(f) ==
    CASE f = "Seq" -> 0..(Len(auFile) + 1)
      [] f \in {"PrevHash", "Hash"} -> TamperHashes
      [] f = "Pipeline" -> {c.Pipeline : c \in AuditInputs} \cup {<<>>}
      [] f = "Segments" -> {c.Segments : c \in AuditInputs} \cup {<<>>}
      [] f = "Tiers" -> {c.Tiers : c \in AuditInputs} \cup {<<>>}
      [] f = "Retry" -> BOOLEAN
      [] f = "ExitCode" -> {0, 1, 2}
      [] f = "Error" -> {"", "denied", "edited"}
      [] f = "PolicyLevel" -> 0..3
      [] f = "PolicyResult" -> {"", Allow, Deny, Escalate}
      [] f = "PolicyRuleID" -> {ID_none, ID_rm, ID_safe}

\* Somebody edits one field of line k of a log that verifies.
TamperField(k, f, v) ==
    /\ auTamper = NoTamper
    /\ \A c \in AuditCallers : auPc[c] = "idle"
    /\ Verify(auFile).Line = 0
    /\ k \in 1..Len(auFile)
    /\ v # auFile[k][f]
    /\ auFile' = [auFile EXCEPT ![k] = [@ EXCEPT ![f] = v]]
    /\ auTamper' = [Kind |-> "field", Line |-> k, Field |-> f]
    /\ UNCHANGED <<auSeq, auPrevHash, auMu, auPc, auEntry, auCalls, auPrior>>
    /\ UNCHANGED notAudVars

\* Somebody removes line k, not the last, of a log that verifies.
TamperRemove(k) ==
    /\ auTamper = NoTamper
    /\ \A c \in AuditCallers : auPc[c] = "idle"
    /\ Verify(auFile).Line = 0
    /\ k \in 1..(Len(auFile) - 1)
    /\ auFile' = SubSeq(auFile, 1, k - 1) \o SubSeq(auFile, k + 1, Len(auFile))
    /\ auTamper' = [Kind |-> "remove", Line |-> k, Field |-> ""]
    /\ UNCHANGED <<auSeq, auPrevHash, auMu, auPc, auEntry, auCalls, auPrior>>
    /\ UNCHANGED notAudVars

NextAudit ==
    \/ \E c \in AuditCallers, call \in AuditInputs : LogAdvance(c, call)
    \/ \E c \in AuditCallers, written \in BOOLEAN : LogWrite(c, written)
    \/ \E k \in 1..MaxLogs, f \in TamperFields :
         \E v \in TamperValues(f) : TamperField(k, f, v)
    \/ \E k \in 1..MaxLogs : TamperRemove(k)
    \/ Reopen

----------------------------------------------------------------------------
(* Claims about the audit log.                                             *)

\* The chain as the log format defines it: sequence numbers 1, 2, 3, ...
\* and every prev_hash the hash of the line before, the genesis hash for
\* the first line.
ValidChain(lines) ==
    \A i \in 1..Len(lines) :
        /\ lines[i].Seq = i
        /\ lines[i].PrevHash = IF i = 1 THEN genesisHash ELSE lines[i - 1].Hash

\* C3 (as stated): after any sequence of Log calls on one Logger by
\* concurrent callers, the audit file is a valid chain.
C3_Original ==
    (auTamper = NoTamper /\ \A c \in AuditCallers : auPc[c] = "idle")
        => ValidChain(auFile)

C25_ReopenResumesChain ==
    /\ (auPrior.Opened /\ auPrior.Clean)
           => /\ auPrior.NewSeq = auPrior.Seq
              /\ auPrior.NewPrevHash = auPrior.PrevHash
    /\ (/\ auPrior.Opened
        /\ auTamper = NoTamper
        /\ \A i \in 1..Len(auCalls) : auCalls[i].Written)
           => /\ Len(auFile) = Len(auCalls)
              /\ Verify(auFile).Line = 0

\* Two entries were written, a new Logger was opened and resumed at
\* sequence number 2, and the third entry, written through it, verifies.
C25_Witness ==
    /\ auPrior.Opened
    /\ auPrior.Clean
    /\ auPrior.Seq = 2
    /\ Len(auFile) = 3
    /\ auFile[3].Seq = 3
    /\ auFile[3].PrevHash = auFile[2].Hash
    /\ Verify(auFile).Line = 0

\* The Loggers open on one audit file: the daemon's and that of an
\* in-process run.
Loggers == {"daemon", "in-process"}

NotOpened == [Open |-> FALSE, Err |-> FALSE, Seeded |-> <<>>,
              Seq |-> 0, PrevHash |-> genesisHash]

\* What the file may hold when the first Logger is opened: nothing, or the
\* entry of an earlier run, and after either a line cut short.
EarlierEntry ==
    LogEntry(0, genesisHash,
             LogCall(JoinSpace(<<S_cat, A_x>>), <<S_cat>>, <<TierRead>>, 0,
                     "", FALSE, NoLogOptions))
InitialFiles ==
    {<<>>, <<MalformedLine>>, <<EarlierEntry>>,
     <<EarlierEntry, MalformedLine>>}

InitLoggers ==
    /\ lgFile \in InitialFiles
    /\ lgLogger = [l \in Loggers |-> NotOpened]

\* The state of the Loggers that no specification step touches.
LoggersIdle ==
    /\ lgFile = <<>>
    /\ lgLogger = [l \in Loggers |-> NotOpened]

\* NewLogger(path): never an error once the directory exists; the cursor
\* comes from the last line when it decodes.  Seeded keeps the file read.
NewLogger(l) ==
    /\ ~lgLogger[l].Open
    /\ lgLogger' = [lgLogger EXCEPT ![l] =
                        [Open |-> TRUE, Err |-> FALSE, Seeded |-> lgFile,
                         Seq |-> ResumeCursor(lgFile).Seq,
                         PrevHash |-> ResumeCursor(lgFile).PrevHash]]
    /\ UNCHANGED lgFile
    /\ UNCHANGED notLgVars

\* Logger.Log on one of the Loggers, the write succeeding: the mutex is
\* the Logger's own and the line is appended in one write.
LoggerLog(l, call) ==
    /\ lgLogger[l].Open
    /\ Len(lgFile) < MaxLogs
    /\ LET entry == LogEntry(lgLogger[l].Seq, lgLogger[l].PrevHash, call)
       IN /\ lgFile' = Append(lgFile, entry)
          /\ lgLogger' = [lgLogger EXCEPT ![l].Seq = entry.Seq,
                                          ![l].PrevHash = entry.Hash]
    /\ UNCHANGED notLgVars

NextLoggers ==
    \/ \E l \in Loggers : NewLogger(l)
    \/ \E l \in Loggers, call \in AuditInputs : LoggerLog(l, call)

\* C32 as stated: whatever the interleaving of the entries two Loggers
\* append to a file of well-formed lines, the file is a valid chain.
C32_Original ==
    (\A i \in 1..Len(lgFile) : ~IsMalformed(lgFile[i])) => ValidChain(lgFile)

\* C33 as stated: NewLogger on a file whose last line is not a valid entry
\* returns an error, and that Logger appends nothing.
C33_Original ==
    \A l \in Loggers :
        (/\ lgLogger[l].Open
         /\ lgLogger[l].Seeded # <<>>
         /\ IsMalformed(lgLogger[l].Seeded[Len(lgLogger[l].Seeded)]))
            => /\ lgLogger[l].Err
               /\ lgFile = lgLogger[l].Seeded

\* C31 as stated: the Logger's sequence counter and previous-hash cursor
\* stand, between Log calls, at the last entry present in the file, also
\* after a Log call that failed, and the file verifies.
C31_Original ==
    (auTamper = NoTamper /\ \A c \in AuditCallers : auPc[c] = "idle")
        => /\ auSeq = ResumeCursor(auFile).Seq
           /\ auPrevHash = ResumeCursor(auFile).PrevHash
           /\ Verify(auFile).Line = 0

----------------------------------------------------------------------------
(* The pipeline parser and validator, and the registry's rule set.         *)

\* The operator tokens, by code point.
OpPipe == <<"U+00A6">>
OpRedirectIn == <<"U+2039">>
OpRedirectOut == <<"U+203A">>
OpAndThen == <<"U+FF06", "U+FF06">>
OpOrElse == <<"U+2016">>
OpSequential == <<"U+FF1B">>
NoOperator == <<>>

\* The capabilities of the registry that the model carries.
RegisteredCaps == {S_rm, S_cat, S_git, S_make, S_go}
S_unknown == <<"n", "o", "p", "e">>

\* Registry.Lookup succeeds.
Lookup(name) == name \in RegisteredCaps

\* Parse, first pass: the redirects are taken out of the flat list.  The
\* token after a redirect operator is its file, whatever it is.
RECURSIVE ExtractRedirects(_, _, _)
ExtractRedirects(args, i, st) ==
    IF i > Len(args) THEN st
    ELSE IF args[i] = OpRedirectIn
         THEN IF i + 1 > Len(args)
              THEN [st EXCEPT !.Err = "redirect requires a file path"]
              ELSE IF st.RedirectIn # <<>>
                   THEN [st EXCEPT !.Err = "multiple redirects"]
              ELSE ExtractRedirects(args, i + 2,
                                    [st EXCEPT !.RedirectIn = args[i + 1]])
    ELSE IF args[i] = OpRedirectOut
         THEN IF i + 1 > Len(args)
              THEN [st EXCEPT !.Err = "redirect requires a file path"]
              ELSE IF st.RedirectOut # <<>>
                   THEN [st EXCEPT !.Err = "multiple redirects"]
              ELSE ExtractRedirects(args, i + 2,
                                    [st EXCEPT !.RedirectOut = args[i + 1]])
    ELSE ExtractRedirects(args, i + 1,
                          [st EXCEPT !.Filtered = Append(@, args[i])])

parseSegment(args) == [CapName |-> args[1], Args |-> Tail(args)]

\* Parse, second pass: the filtered list is split on the pipe operator.
RECURSIVE SplitSegments(_, _, _, _)
SplitSegments(filtered, k, current, segs) ==
    IF k <= Len(filtered) /\ filtered[k] # OpPipe
    THEN SplitSegments(filtered, k + 1, Append(current, filtered[k]), segs)
    ELSE IF current = <<>>
         THEN [Err |-> "empty segment", Segments |-> <<>>]
    ELSE IF ~Lookup(current[1])
         THEN [Err |-> "unknown capability", Segments |-> <<>>]
    ELSE IF k > Len(filtered)
         THEN [Err |-> "", Segments |-> Append(segs, parseSegment(current))]
    ELSE SplitSegments(filtered, k + 1, <<>>,
                       Append(segs, parseSegment(current)))

Pipeline(err, segs, redirIn, redirOut) ==
    [Err |-> err, Segments |-> segs, RedirectIn |-> redirIn,
     RedirectOut |-> redirOut]

Parse(args) ==
    IF args = <<>> THEN Pipeline("empty pipeline", <<>>, <<>>, <<>>)
    ELSE LET r == ExtractRedirects(args, 1,
                      [Err |-> "", RedirectIn |-> <<>>, RedirectOut |-> <<>>,
                       Filtered |-> <<>>])
             s == SplitSegments(r.Filtered, 1, <<>>, <<>>)
         IN IF r.Err # "" THEN Pipeline(r.Err, <<>>, <<>>, <<>>)
            ELSE IF s.Err # "" THEN Pipeline(s.Err, <<>>, <<>>, <<>>)
            ELSE Pipeline("", s.Segments, r.RedirectIn, r.RedirectOut)

toOperator(token) ==
    IF token \in {OpAndThen, OpOrElse, OpSequential} THEN token
    ELSE NoOperator

\* ParseCommand: the argument list is split on the compound operators and
\* every section is parsed as a pipeline.
RECURSIVE SplitSteps(_, _, _, _)
SplitSteps(args, k, current, steps) ==
    IF k <= Len(args) /\ toOperator(args[k]) = NoOperator
    THEN SplitSteps(args, k + 1, Append(current, args[k]), steps)
    ELSE IF current = <<>>
         THEN [Err |-> "empty pipeline", Steps |-> <<>>]
    ELSE LET p == Parse(current)
         IN IF p.Err # "" THEN [Err |-> p.Err, Steps |-> <<>>]
            ELSE IF k > Len(args)
                 THEN [Err |-> "",
                       Steps |-> Append(steps, [Pipeline |-> p,
                                                Op |-> NoOperator])]
            ELSE SplitSteps(args, k + 1, <<>>,
                            Append(steps, [Pipeline |-> p,
                                           Op |-> toOperator(args[k])]))

ParseCommand(args) ==
    IF args = <<>> THEN [Err |-> "empty command", Steps |-> <<>>]
    ELSE SplitSteps(args, 1, <<>>, <<>>)

\* Most tokens in the argument list of a parser call.
MaxArgs == 5

\* The tokens of the argument lists: a registered capability (which also
\* serves as an argument and as a file name), an unregistered one, the
\* empty string, and operator tokens.
A_empty == <<>>
ParseTokens ==
    {S_cat, S_unknown, A_empty, OpPipe, OpRedirectIn, OpRedirectOut,
     OpAndThen}

RECURSIVE ArgLists(_)
ArgLists(n) ==
    IF n = 0 THEN {<<>>}
    ELSE ArgLists(n - 1)
         \cup {Append(as, t) : as \in ArgLists(n - 1), t \in ParseTokens}

NotCalled == "none"
NoParse == [Err |-> "not called"]

InitParse ==
    /\ paArgs \in ArgLists(MaxArgs)
    /\ paCall = NotCalled
    /\ paRes = NoParse

\* The state of a parser that no specification step touches.
ParseIdle ==
    /\ paArgs = <<>>
    /\ paCall = NotCalled
    /\ paRes = NoParse

\* Parse is called on the argument list.
CallParse ==
    /\ paCall = NotCalled
    /\ paCall' = "Parse"
    /\ paRes' = Parse(paArgs)
    /\ UNCHANGED paArgs
    /\ UNCHANGED notPaVars

\* ParseCommand is called on the argument list.
CallParseCommand ==
    /\ paCall = NotCalled
    /\ paCall' = "ParseCommand"
    /\ paRes' = ParseCommand(paArgs)
    /\ UNCHANGED paArgs
    /\ UNCHANGED notPaVars

NextParse ==
    \/ CallParse
    \/ CallParseCommand

IsCompound(t) == t \in {OpAndThen, OpOrElse, OpSequential}
IsRedirect(t) == t \in {OpRedirectIn, OpRedirectOut}
IsOperatorToken(t) == IsCompound(t) \/ IsRedirect(t) \/ t = OpPipe

\* A redirect token is the last token, or the token after it is an
\* operator token.
RedirectWithoutFile(args) ==
    \E i \in 1..Len(args) :
        /\ IsRedirect(args[i])
        /\ i = Len(args) \/ IsOperatorToken(args[i + 1])

\* A Command as the parser promises it.
WellFormed(cmd) ==
    /\ Len(cmd.Steps) >= 1
    /\ \A i \in 1..Len(cmd.Steps) :
           /\ Len(cmd.Steps[i].Pipeline.Segments) >= 1
           /\ \A k \in 1..Len(cmd.Steps[i].Pipeline.Segments) :
                  cmd.Steps[i].Pipeline.Segments[k].CapName
                      \in RegisteredCaps
           /\ (cmd.Steps[i].Op = NoOperator) <=> (i = Len(cmd.Steps))

CompoundMisplaced(args) ==
    \E i \in 1..Len(args) :
        /\ IsCompound(args[i])
        /\ i = 1 \/ i = Len(args) \/ IsCompound(args[i + 1])

PipeMisplaced(args) ==
    \E i \in 1..Len(args) :
        /\ args[i] = OpPipe
        /\ \/ i = 1
           \/ i = Len(args)
           \/ IsCompound(args[i - 1]) \/ args[i - 1] = OpPipe
           \/ IsCompound(args[i + 1]) \/ args[i + 1] = OpPipe

\* Two redirects of one kind, each with its file, in one pipeline.
SecondRedirect(args) ==
    \E i, j \in 1..Len(args) :
        /\ i + 1 < j /\ j < Len(args)
        /\ IsRedirect(args[i])
        /\ args[j] = args[i]
        /\ \A k \in i..j : ~IsCompound(args[k])

\* C29 as stated, for argument lists in which every redirect token has a
\* file after it: ParseCommand returns an error or a well-formed Command,
\* and an empty argument list, a misplaced compound operator, an empty
\* group at a pipe token and a second redirect of one kind are errors.
C29_Original ==
    (paCall = "ParseCommand" /\ ~RedirectWithoutFile(paArgs))
        => /\ paRes.Err = "" => WellFormed(paRes)
           /\ (\/ paArgs = <<>>
               \/ CompoundMisplaced(paArgs)
               \/ PipeMisplaced(paArgs)
               \/ SecondRedirect(paArgs)) => paRes.Err # ""

\* C30 as stated: Parse returns an error whenever a redirect token is the
\* last token or is followed by an operator token.
C30_Original ==
    (paCall = "Parse" /\ RedirectWithoutFile(paArgs)) => paRes.Err # ""

\* rules.checkRmCatastrophic, the one hardcoded rule of the rule set, with
\* the rule that blocks nothing before it.
rulesCheckNothing(capName, args) == FALSE
rulesCheckRmCatastrophic(capName, args) ==
    /\ capName = S_rm
    /\ hasAnyFlag(args, <<A_r, A_R>>)
    /\ \E k \in 1..Len(args) : RmTargetBlocked(args[k])

\* The config rules ApplyRules adds: the closures of rules.CompileCapRule
\* for every capability of the configuration, and rules.CheckGitCheckoutAll.
\* TRUE when one of them returns an error.
ruleSetConfigRejects(cfg, capName, args) ==
    \/ \E name \in DOMAIN cfg :
           \/ /\ Len(cfg[name].RejectFlags) > 0
              /\ capName = name
              /\ hasAnyFlag(args, cfg[name].RejectFlags)
           \/ \E sub \in DOMAIN cfg[name].Subcommands :
                  /\ Len(cfg[name].Subcommands[sub]) > 0
                  /\ capName = name /\ Len(args) > 0 /\ args[1] = sub
                  /\ hasAnyFlag(Tail(args), cfg[name].Subcommands[sub])
    \/ capName = S_git /\ GitCheckoutAllArgs(args)

\* RuleSet.Check: the hardcoded rules always, the config rules unless
\* retry; with the Check that runs the config rules on retry too before it.
RuleSetCheckOnRetryToo(cfg, capName, args, retry) ==
    IF rulesCheckRmCatastrophic(capName, args) THEN "permanently blocked"
    ELSE IF ruleSetConfigRejects(cfg, capName, args) THEN "config rule"
    ELSE ""

RuleSetCheck(cfg, capName, args, retry) ==
    IF rulesCheckRmCatastrophic(capName, args) THEN "permanently blocked"
    ELSE IF retry THEN ""
    ELSE IF ruleSetConfigRejects(cfg, capName, args) THEN "config rule"
    ELSE ""

\* Capability.Validate of the capabilities carried.
CapValidate(capName, args) ==
    IF capName \in {S_rm, S_git, S_go} /\ args = <<>> THEN "missing argument"
    ELSE ""

\* The registry: which tiers are enabled and the rule configuration its
\* rule set was compiled from.
Registry(tiers, cfg) == [Tiers |-> tiers, Rules |-> cfg]
CheckTier(reg, t) == IF reg.Tiers[t] THEN "" ELSE "tier is disabled"

\* Validate's checks on one segment, in the code's order.
ValidateSegment(seg, reg, allow) ==
    IF ~Lookup(seg.CapName) THEN "unknown capability"
    ELSE IF CheckTier(reg, CapTier(seg.CapName)) # ""
         THEN CheckTier(reg, CapTier(seg.CapName))
    ELSE IF RuleSetCheck(reg.Rules, seg.CapName, seg.Args, allow) # ""
         THEN RuleSetCheck(reg.Rules, seg.CapName, seg.Args, allow)
    ELSE CapValidate(seg.CapName, seg.Args)

\* The first error in a list of errors, or none.
FirstError(errs) ==
    IF \A i \in 1..Len(errs) : errs[i] = "" THEN ""
    ELSE errs[CHOOSE i \in 1..Len(errs) :
                  errs[i] # "" /\ \A j \in 1..(i - 1) : errs[j] = ""]

Validate(p, reg, allow) ==
    IF p.RedirectOut # <<>> /\ CheckTier(reg, TierWrite) # ""
    THEN CheckTier(reg, TierWrite)
    ELSE FirstError([i \in 1..Len(p.Segments) |->
                        ValidateSegment(p.Segments[i], reg, allow)])

\* ValidateCommand, with the one that stops after the first step before it.
ValidateFirstStep(cmd, reg, allow) ==
    Validate(cmd.Steps[1].Pipeline, reg, allow)
ValidateCommand(cmd, reg, allow) ==
    FirstError([i \in 1..Len(cmd.Steps) |->
                   Validate(cmd.Steps[i].Pipeline, reg, allow)])

----------------------------------------------------------------------------
(* Level 2: the learned policy store.                                      *)

MatchCriteria(capName, subcmd, hasFlags, noFlags, argsGlob) ==
    [Cap |-> capName, Subcmd |-> subcmd, HasFlags |-> hasFlags,
     NoFlags |-> noFlags, ArgsGlob |-> argsGlob]

PolicyEntry(id, match, decision, approved) ==
    [ID |-> RuleId(id, <<>>, <<>>), Match |-> match, Decision |-> decision,
     Approved |-> approved]

\* filepath.Match for patterns of literal characters, * and ?: a star
\* stands for any run of characters other than the separator, a question
\* mark for one such character.
RECURSIVE GlobMatch(_, _)
GlobMatch(pattern, name) ==
    IF pattern = <<>> THEN name = <<>>
    ELSE IF Head(pattern) = "*"
         THEN \E k \in 0..Len(name) :
                  /\ \A i \in 1..k : name[i] # "/"
                  /\ GlobMatch(Tail(pattern), SubSeq(name, k + 1, Len(name)))
    ELSE /\ name # <<>>
         /\ IF Head(pattern) = "?" THEN Head(name) # "/"
            ELSE Head(name) = Head(pattern)
         /\ GlobMatch(Tail(pattern), Tail(name))

matchAnyGlob(str, patterns) ==
    \E i \in 1..Len(patterns) : GlobMatch(patterns[i], str)

\* extractPositionalArgs: the arguments after the subcommand that are not
\* flags, everything after a literal -- being positional.
RECURSIVE PositionalFrom(_, _)
PositionalFrom(args, pastDashes) ==
    IF args = <<>> THEN <<>>
    ELSE IF Head(args) = A_dd THEN PositionalFrom(Tail(args), TRUE)
    ELSE IF ~pastDashes /\ HasPrefix(Head(args), <<"-">>)
         THEN PositionalFrom(Tail(args), pastDashes)
    ELSE <<Head(args)>> \o PositionalFrom(Tail(args), pastDashes)

extractPositionalArgs(args, subcmd) ==
    IF subcmd # <<>> /\ Len(args) > 0 /\ args[1] = subcmd
    THEN PositionalFrom(Tail(args), FALSE)
    ELSE PositionalFrom(args, FALSE)

\* matchesCriteria, with the one that lets a segment without positional
\* arguments pass the args_glob test before it.
matchesCriteriaVacuous(seg, m) ==
    LET args == IF m.Subcmd # <<>> /\ Len(seg.Args) > 0
                THEN Tail(seg.Args) ELSE seg.Args
        positional == extractPositionalArgs(seg.Args, m.Subcmd)
    IN /\ seg.CapName = m.Cap
       /\ m.Subcmd # <<>> => (Len(seg.Args) > 0 /\ seg.Args[1] = m.Subcmd)
       /\ Len(m.HasFlags) > 0 => hasAnyFlag(args, m.HasFlags)
       /\ Len(m.NoFlags) > 0 => ~hasAnyFlag(args, m.NoFlags)
       /\ Len(m.ArgsGlob) > 0
              => \A i \in 1..Len(positional) :
                     matchAnyGlob(positional[i], m.ArgsGlob)

matchesCriteria(seg, m) ==
    LET args == IF m.Subcmd # <<>> /\ Len(seg.Args) > 0
                THEN Tail(seg.Args) ELSE seg.Args
        positional == extractPositionalArgs(seg.Args, m.Subcmd)
    IN /\ seg.CapName = m.Cap
       /\ m.Subcmd # <<>> => (Len(seg.Args) > 0 /\ seg.Args[1] = m.Subcmd)
       /\ Len(m.HasFlags) > 0 => hasAnyFlag(args, m.HasFlags)
       /\ Len(m.NoFlags) > 0 => ~hasAnyFlag(args, m.NoFlags)
       /\ Len(m.ArgsGlob) > 0
              => /\ Len(positional) > 0
                 /\ \A i \in 1..Len(positional) :
                        matchAnyGlob(positional[i], m.ArgsGlob)

\* ParseDecision succeeds.
ValidDecision(d) == d \in {Allow, Deny, Escalate}

\* matchSegment without its test of Approved.
matchSegmentUnapproved(entries, seg) ==
    LET hits == {i \in 1..Len(entries) :
                    /\ matchesCriteria(seg, entries[i].Match)
                    /\ ValidDecision(entries[i].Decision)}
        first == CHOOSE i \in hits : \A j \in hits : i <= j
    IN IF hits # {}
       THEN Result(entries[first].Decision, 2, "matched learned policy",
                   entries[first].ID)
       ELSE IF seg.Tier = TierRead
            THEN Result(Allow, 2, "read-only (implicit allow)", ID_none)
       ELSE Result(Escalate, 2, "no learned policy", ID_none)

\* matchSegment: the first approved entry that matches and has a valid
\* decision; else the implicit allow of a read-tier segment; else escalate.
matchSegment(entries, seg) ==
    LET hits == {i \in 1..Len(entries) :
                    /\ entries[i].Approved
                    /\ matchesCriteria(seg, entries[i].Match)
                    /\ ValidDecision(entries[i].Decision)}
        first == CHOOSE i \in hits : \A j \in hits : i <= j
    IN IF hits # {}
       THEN Result(entries[first].Decision, 2, "matched learned policy",
                   entries[first].ID)
       ELSE IF seg.Tier = TierRead
            THEN Result(Allow, 2, "read-only (implicit allow)", ID_none)
       ELSE Result(Escalate, 2, "no learned policy", ID_none)

Level2Evaluate(entries, segs, retry) ==
    LET results == [i \in 1..Len(segs) |-> matchSegment(entries, segs[i])]
        denied == {i \in 1..Len(segs) : results[i].Decision = Deny}
    IN IF retry THEN Result(Escalate, 2, "--retry bypasses Level 2", ID_none)
       ELSE IF Len(segs) = 0
            THEN Result(Escalate, 2, "no segments to evaluate", ID_none)
       ELSE IF denied # {}
            THEN results[CHOOSE i \in denied : \A j \in denied : i <= j]
       ELSE IF Len(segs) = 1 THEN results[1]
       ELSE IF \E i \in 1..Len(segs) : results[i].Decision # Allow
            THEN Result(Escalate, 2, "no learned policy matched all segments",
                        ID_none)
       ELSE Result(Allow, 2, "all segments allowed by learned policy", ID_none)

\* Most entries in the learned policy store of a call.
MaxEntries == 2

\* The glob patterns carried.
G_x == <<"x">>
G_star == <<"*">>
G_q == <<"?">>

\* The entries a store may hold (LoadStore admits the three decisions
\* only): with and without patterns, with a subcommand, with flags,
\* approved and not.
EntryPool ==
    {PolicyEntry("allow-make-glob",
                 MatchCriteria(S_make, <<>>, <<>>, <<>>, <<G_q, G_x>>),
                 Allow, TRUE),
     PolicyEntry("deny-make",
                 MatchCriteria(S_make, <<>>, <<>>, <<>>, <<>>), Deny, TRUE),
     PolicyEntry("deny-make-unapproved",
                 MatchCriteria(S_make, <<>>, <<>>, <<>>, <<>>), Deny, FALSE),
     PolicyEntry("escalate-git-status-glob",
                 MatchCriteria(S_git, A_status, <<>>, <<>>, <<G_star>>),
                 Escalate, TRUE),
     PolicyEntry("allow-rm-f",
                 MatchCriteria(S_rm, <<>>, <<A_f>>, <<A_r>>, <<G_star>>),
                 Allow, TRUE),
     PolicyEntry("escalate-make-j-unapproved",
                 MatchCriteria(S_make, <<>>, <<A_j>>, <<>>, <<>>),
                 Escalate, FALSE)}

RECURSIVE EntryLists(_)
EntryLists(n) ==
    IF n = 0 THEN {<<>>}
    ELSE EntryLists(n - 1)
         \cup {Append(es, e) : es \in EntryLists(n - 1), e \in EntryPool}

\* The segments of the requests.
Level2Segs ==
    {Seg(S_make, <<>>), Seg(S_make, <<A_x>>), Seg(S_make, <<A_j4>>),
     Seg(S_make, <<A_dd, A_f>>), Seg(S_make, <<A_x, A_tildeX>>),
     Seg(S_git, <<A_status>>), Seg(S_git, <<A_status, A_tildeX>>),
     Seg(S_cat, <<A_x>>), Seg(S_rm, <<A_f>>), Seg(S_rm, <<A_f, A_x>>)}

RECURSIVE SegLists(_)
SegLists(n) ==
    IF n = 1 THEN {<<g>> : g \in Level2Segs}
    ELSE SegLists(n - 1)
         \cup {Append(gs, g) : gs \in SegLists(n - 1), g \in Level2Segs}

InitLevel2 ==
    /\ l2Entries \in EntryLists(MaxEntries)
    /\ l2Segs \in SegLists(MaxSegs)
    /\ l2Retry \in BOOLEAN
    /\ l2Res = NotEvaluated

\* The state of a Level 2 engine that no specification step touches.
Level2Idle ==
    /\ l2Entries = <<>>
    /\ l2Segs = <<>>
    /\ l2Retry = FALSE
    /\ l2Res = NotEvaluated

\* One call of Level2.Evaluate.
L2Evaluate ==
    /\ l2Res = NotEvaluated
    /\ l2Res' = Level2Evaluate(l2Entries, l2Segs, l2Retry)
    /\ UNCHANGED <<l2Entries, l2Segs, l2Retry>>
    /\ UNCHANGED notL2Vars

NextLevel2 == L2Evaluate

\* The decision the first approved matching entry gives a segment, Allow
\* for a read-tier segment no approved entry matches, Escalate otherwise.
SegmentDecision(seg) ==
    LET hits == {i \in 1..Len(l2Entries) :
                    /\ l2Entries[i].Approved
                    /\ matchesCriteria(seg, l2Entries[i].Match)}
    IN IF hits # {}
       THEN l2Entries[CHOOSE i \in hits : \A j \in hits : i <= j].Decision
       ELSE IF seg.Tier = TierRead THEN Allow
       ELSE Escalate

RECURSIVE ApprovedOnly(_)
ApprovedOnly(entries) ==
    IF entries = <<>> THEN <<>>
    ELSE IF Head(entries).Approved
         THEN <<Head(entries)>> \o ApprovedOnly(Tail(entries))
    ELSE ApprovedOnly(Tail(entries))

\* C27: with retry the result is Escalate; without it the result is Deny
\* iff some segment's decision is Deny, otherwise Allow iff every
\* segment's decision is Allow, otherwise Escalate, a segment's decision
\* being that of the first approved entry that matches it (Allow for an
\* unmatched read-tier segment); and the result is that of the store with
\* the entries not approved taken out.
C27_FirstMatchCombined ==
    l2Res # NotEvaluated
        => /\ l2Res.Level = 2
           /\ l2Res.Decision =
                  IF l2Retry THEN Escalate
                  ELSE IF \E i \in 1..Len(l2Segs) :
                              SegmentDecision(l2Segs[i]) = Deny
                       THEN Deny
                  ELSE IF \A i \in 1..Len(l2Segs) :
                              SegmentDecision(l2Segs[i]) = Allow
                       THEN Allow
                  ELSE Escalate
           /\ l2Res.Decision =
                  Level2Evaluate(ApprovedOnly(l2Entries), l2Segs,
                                 l2Retry).Decision

\* make x, which the second entry (the first is not approved) allows by
\* its patterns, then cat x, allowed as read-tier: the pipeline is allowed.
C27_Witness ==
    /\ ~l2Retry
    /\ l2Segs = <<Seg(S_make, <<A_x>>), Seg(S_cat, <<A_x>>)>>
    /\ Len(l2Entries) = 2
    /\ ~l2Entries[1].Approved
    /\ l2Entries[1].Decision = Deny
    /\ l2Entries[2].Match.ArgsGlob # <<>>
    /\ l2Res.Decision = Allow

\* The criteria of an entry without its patterns.
WithoutGlob(m) == [m EXCEPT !.ArgsGlob = <<>>]

EveryPositionalMatches(seg, m) ==
    \A i \in 1..Len(extractPositionalArgs(seg.Args, m.Subcmd)) :
        \E k \in 1..Len(m.ArgsGlob) :
            GlobMatch(m.ArgsGlob[k],
                      extractPositionalArgs(seg.Args, m.Subcmd)[i])

\* The entry that decided a request of one segment, when one did.
DecidedBy(e) ==
    /\ l2Res # NotEvaluated
    /\ l2Res.RuleID = l2Entries[e].ID

\* The calls C28 is about: one segment, no retry, and a store whose first
\* approved entry has patterns and its other criteria hold of the segment.
GlobCase(e) ==
    /\ l2Res # NotEvaluated
    /\ ~l2Retry
    /\ Len(l2Segs) = 1
    /\ e \in 1..Len(l2Entries)
    /\ l2Entries[e].Approved
    /\ \A k \in 1..(e - 1) : ~l2Entries[k].Approved
    /\ l2Entries[e].Match.ArgsGlob # <<>>
    /\ matchesCriteria(l2Segs[1], WithoutGlob(l2Entries[e].Match))

\* C28 as stated: an entry with patterns matches a segment, its other
\* criteria holding, exactly when every positional argument of the segment
\* matches a pattern, whatever the number of positional arguments.
C28_Original ==
    \A e \in 1..MaxEntries :
        GlobCase(e)
            => (DecidedBy(e)
                    <=> EveryPositionalMatches(l2Segs[1], l2Entries[e].Match))

\* C28: an entry with patterns matches a segment, its other criteria
\* holding, exactly when the segment has at least one positional argument
\* and every positional argument matches a pattern.
C28_GlobNeedsPositional ==
    \A e \in 1..MaxEntries :
        GlobCase(e)
            => (DecidedBy(e)
                    <=> /\ extractPositionalArgs(
                               l2Segs[1].Args, l2Entries[e].Match.Subcmd)
                             # <<>>
                        /\ EveryPositionalMatches(l2Segs[1],
                                                  l2Entries[e].Match))

\* make without arguments against the entry that allows make by its
\* patterns: the entry does not match and the request escalates.
C28_Witness ==
    /\ ~l2Retry
    /\ l2Segs = <<Seg(S_make, <<>>)>>
    /\ Len(l2Entries) = 1
    /\ l2Entries[1].Approved
    /\ l2Entries[1].Match.Cap = S_make
    /\ l2Entries[1].Match.ArgsGlob # <<>>
    /\ l2Res.Decision = Escalate

----------------------------------------------------------------------------
(* The daemon: handleConnection, evaluatePolicy, logPolicyDenial, and      *)
(* cli.RunCommand with pipeline.ExecuteCommand under it.                   *)

\* ipc.Request and ipc.ExitResult.  The client puts the token given with
\* --approved into Approved; the server never sets PolicyEscalate.
NoToken == ""
Request(args, retry, approved) ==
    [Args |-> args, Retry |-> retry, Approved |-> approved]
ExitResult(code, error, policyDeny) ==
    [Code |-> code, Error |-> error, PolicyDeny |-> policyDeny,
     PolicyEscalate |-> NoToken]

\* The tier configurations: the default one and the one with every tier on.
TierConfigs ==
    {[t \in Tiers |-> t # TierDangerous], [t \in Tiers |-> TRUE]}

\* A learned policy store: rm is denied, make without -j is allowed, and
\* one entry is not approved.
LearnedStore ==
    <<PolicyEntry("deny-make", MatchCriteria(S_make, <<>>, <<>>, <<>>, <<>>),
                  Deny, FALSE),
      PolicyEntry("deny-rm", MatchCriteria(S_rm, <<>>, <<>>, <<>>, <<>>),
                  Deny, TRUE),
      PolicyEntry("allow-make",
                  MatchCriteria(S_make, <<>>, <<>>, <<A_j>>, <<>>),
                  Allow, TRUE)>>

\* daemon.New: policyL1 is nil unless Level1Enabled, policyL2 is nil unless
\* Level2Enabled; the logger is nil when the audit log could not be opened.
Servers ==
    {[policyL1 |-> l1, policyL2 |-> l2, logger |-> lg,
      reg |-> Registry(t, DefaultRules)] :
        l1 \in {[On |-> FALSE, Rules |-> <<>>]}
                 \cup {[On |-> TRUE, Rules |-> NewLevel1(DefaultRules, co, so)] :
                          co \in Perms(DOMAIN DefaultRules),
                          so \in SubOrders(DefaultRules)},
        l2 \in {[On |-> FALSE, Entries |-> <<>>],
                [On |-> TRUE, Entries |-> LearnedStore]},
        lg \in BOOLEAN,
        t \in TierConfigs}

\* The argument vectors of the requests: one pipeline section, alone, with
\* a section before it or with a tail after it, and a recursive removal
\* between a section and a tail.
ArgvSections ==
    {<<S_rm, f, t>> : f \in RecursiveFlagArgs, t \in CatastrophicTargets}
    \cup {<<S_rm, A_root, A_rf>>, <<S_rm, A_f, A_root>>, <<S_rm, A_r, A_x>>,
          <<S_rm>>, <<S_unknown, A_x>>, <<S_git, A_x>>, <<S_go, A_build>>,
          <<S_go, A_run>>, <<S_go, A_x>>}
    \cup {<<s.CapName>> \o s.Args : s \in OtherSegs}
ArgvPrefixes ==
    {<<S_cat, A_x, OpPipe>>, <<S_make, A_x, OpAndThen>>,
     <<S_cat, A_x, OpOrElse>>}
ArgvSuffixes ==
    {<<OpPipe, S_cat, A_x>>, <<OpSequential, S_cat, A_x>>,
     <<OpRedirectOut, A_x>>, <<OpPipe>>}
Argvs ==
    ArgvSections
    \cup {p \o a : p \in ArgvPrefixes, a \in ArgvSections}
    \cup {a \o q : a \in ArgvSections, q \in ArgvSuffixes}
    \cup {p \o <<S_rm, A_fR, t>> \o q :
             p \in ArgvPrefixes, t \in {A_dotdot, A_tildeX}, q \in ArgvSuffixes}

\* The requests: every argument vector with and without --retry, and the
\* single sections also with a token given with --approved.
Requests ==
    {Request(a, r, NoToken) : a \in Argvs, r \in BOOLEAN}
    \cup {Request(a, r, "4f2a") : a \in ArgvSections, r \in BOOLEAN}

NoSteps == <<>>

\* The frame tags of the client, and the tag of no frame of the protocol.
TagRequest == "0x01"
TagStdinData == "0x02"
TagStdinEOF == "0x03"
TagSignal == "0x04"
ClientFrameTags == {TagRequest, TagStdinData, TagStdinEOF, TagSignal, "0x7f"}

\* What ipc.ReadFrame and json.Unmarshal give for the first frame: whether
\* the read failed, the tag, whether the payload unmarshals into a Request,
\* and the Request it unmarshals into.
Frame(readErr, tag, valid, req) ==
    [ReadErr |-> readErr, Tag |-> tag, Valid |-> valid, Req |-> req]
NoFrame == Frame(FALSE, "", FALSE, Request(<<>>, FALSE, NoToken))

\* The first frames: every request in a request frame, and one payload
\* under every tag, readable or not, unmarshalling or not.
FirstFrames ==
    {Frame(FALSE, TagRequest, TRUE, r) : r \in Requests}
    \cup {Frame(e, t, v, Request(<<S_cat, A_x>>, FALSE, NoToken)) :
             e \in BOOLEAN, t \in ClientFrameTags, v \in BOOLEAN}

\* handleConnection's three tests on the first frame, with the handler
\* that tests the read alone before it.
FrameRejectedOnReadError(f) == f.ReadErr
FrameRejected(f) == f.ReadErr \/ f.Tag # TagRequest \/ ~f.Valid

\* The message of the synthesized ExitResult.
RejectMessage(f) ==
    IF f.ReadErr THEN "read request"
    ELSE IF f.Tag # TagRequest THEN "expected request frame"
    ELSE "unmarshal request"

InitDaemon ==
    /\ dSrv \in Servers
    /\ dPc = "accept"
    /\ dReq = Request(<<>>, FALSE, NoToken)
    /\ dResult = NotEvaluated
    /\ dCmd = NoSteps
    /\ dStep = 0
    /\ dLastErr = ""
    /\ dRunCalled = FALSE
    /\ dInvoked = <<>>
    /\ dTrace = <<>>
    /\ dFrame = NoFrame
    /\ dExits = <<>>

\* The state of a daemon that no specification step touches.
DaemonIdle ==
    /\ dSrv = [policyL1 |-> [On |-> FALSE, Rules |-> <<>>],
               policyL2 |-> [On |-> FALSE, Entries |-> <<>>],
               logger |-> FALSE,
               reg |-> Registry([t \in Tiers |-> TRUE], DefaultRules)]
    /\ dPc = "idle"
    /\ dReq = Request(<<>>, FALSE, NoToken)
    /\ dResult = NotEvaluated
    /\ dCmd = NoSteps
    /\ dStep = 0
    /\ dLastErr = ""
    /\ dRunCalled = FALSE
    /\ dInvoked = <<>>
    /\ dTrace = <<>>
    /\ dFrame = NoFrame
    /\ dExits = <<>>

\* The policy segments evaluatePolicy builds: every segment of every step,
\* each with its capability's base tier.
RECURSIVE PolicySegments(_)
PolicySegments(steps) ==
    IF steps = <<>> THEN <<>>
    ELSE [i \in 1..Len(Head(steps).Pipeline.Segments) |->
             Seg(Head(steps).Pipeline.Segments[i].CapName,
                 Head(steps).Pipeline.Segments[i].Args)]
         \o PolicySegments(Tail(steps))

\* evaluatePolicy: nil when the command does not parse; Level 1, and on
\* its Escalate Level 2 if there is one.
evaluatePolicy(srv, req) ==
    LET cmd == ParseCommand(req.Args)
        segs == PolicySegments(cmd.Steps)
        hasRedirectOut == \E i \in 1..Len(cmd.Steps) :
                              cmd.Steps[i].Pipeline.RedirectOut # <<>>
        r1 == Level1Evaluate(srv.policyL1.Rules, segs, hasRedirectOut,
                             req.Retry)
    IN IF cmd.Err # "" THEN NilResult
       ELSE IF r1.Decision = Escalate /\ srv.policyL2.On
            THEN Level2Evaluate(srv.policyL2.Entries, segs, req.Retry)
       ELSE r1

\* The test of handleConnection's deny branch, with the test that never
\* takes it before it.
DenyNever(result) == FALSE
DenyDecides(result) == result # NilResult /\ result.Decision = Deny

\* The segments and tiers RunCommand and evaluatePolicy put in the audit
\* entry, and the options built from the policy result.
AuditCall(req, exitCode, errMsg, opts) ==
    LET segs == PolicySegments(ParseCommand(req.Args).Steps)
    IN LogCall(JoinSpace(req.Args),
               [i \in 1..Len(segs) |-> segs[i].CapName],
               [i \in 1..Len(segs) |-> segs[i].Tier],
               exitCode, errMsg, req.Retry, opts)

EvalOptions(result) ==
    IF result \in {NotEvaluated, NilResult} THEN NoLogOptions
    ELSE LogOptions(result.Level, result.Decision, result.RuleID)

\* One call of Logger.Log by the handler, if the server has a logger: the
\* counters advance, and the line is appended unless the write fails.
ServerLog(call, written) ==
    IF dSrv.logger
    THEN /\ auSeq' = auSeq + 1
         /\ auPrevHash' = LogEntry(auSeq, auPrevHash, call).Hash
         /\ auFile' = IF written
                      THEN Append(auFile, LogEntry(auSeq, auPrevHash, call))
                      ELSE auFile
         /\ auCalls' = Append(auCalls, [Seq |-> auSeq + 1,
                                        Written |-> written])
         /\ UNCHANGED <<auMu, auPc, auEntry, auTamper, auPrior>>
    ELSE written /\ UNCHANGED audVars

\* handleConnection: the first frame cannot be read, is not a request
\* frame, or does not unmarshal; writeExit with code 2, and return.
RejectFrame(f) ==
    /\ dPc = "accept"
    /\ FrameRejected(f)
    /\ dFrame' = f
    /\ dExits' = Append(dExits, ExitResult(2, RejectMessage(f), ID_none))
    /\ dPc' = "done"
    /\ UNCHANGED <<dSrv, dReq, dResult, dCmd, dStep, dLastErr, dRunCalled,
                   dInvoked, dTrace>>
    /\ UNCHANGED <<audVars, notDmnVars>>

\* handleConnection: the request frame is read and unmarshalled.
ReadRequest(f) ==
    /\ dPc = "accept"
    /\ ~FrameRejected(f)
    /\ dFrame' = f
    /\ dReq' = f.Req
    /\ dPc' = "policy"
    /\ UNCHANGED <<dSrv, dResult, dCmd, dStep, dLastErr, dRunCalled,
                   dInvoked, dTrace, dExits>>
    /\ UNCHANGED <<audVars, notDmnVars>>

\* handleConnection: policyL1 is nil, so no policy is evaluated, whatever
\* the request carries.
SkipPolicy ==
    /\ dPc = "policy"
    /\ ~dSrv.policyL1.On
    /\ dPc' = "run"
    /\ UNCHANGED <<dSrv, dReq, dResult, dCmd, dStep, dLastErr, dRunCalled,
                   dInvoked, dTrace, dExits>>
    /\ UNCHANGED dFrame
    /\ UNCHANGED <<audVars, notDmnVars>>

\* handleConnection: evaluatePolicy is called; a Deny goes to the deny
\* branch, every other result (nil, Allow, Escalate) goes on to RunCommand.
EvaluatePolicy ==
    /\ dPc = "policy"
    /\ dSrv.policyL1.On
    /\ dResult' = evaluatePolicy(dSrv, dReq)
    /\ dPc' = IF DenyDecides(dResult') THEN "deny" ELSE "run"
    /\ UNCHANGED <<dSrv, dReq, dCmd, dStep, dLastErr, dRunCalled, dInvoked,
                   dTrace, dExits>>
    /\ UNCHANGED dFrame
    /\ UNCHANGED <<audVars, notDmnVars>>

\* handleConnection's deny branch: logPolicyDenial, then the ExitResult
\* with code 1 and the rule id, then return.
DenyRequest(written) ==
    /\ dPc = "deny"
    /\ ServerLog(AuditCall(dReq, 1, dResult.Reason, EvalOptions(dResult)),
                 written)
    /\ dExits' = Append(dExits, ExitResult(1, dResult.Reason, dResult.RuleID))
    /\ dPc' = "done"
    /\ UNCHANGED <<dSrv, dReq, dResult, dCmd, dStep, dLastErr, dRunCalled,
                   dInvoked, dTrace>>
    /\ UNCHANGED dFrame
    /\ UNCHANGED notDmnVars

\* RunCommand up to ExecuteCommand: a command that does not parse or does
\* not validate returns 1, without an audit entry, and the handler writes
\* the ExitResult.
RunCommand ==
    /\ dPc = "run"
    /\ dRunCalled' = TRUE
    /\ LET cmd == ParseCommand(dReq.Args)
       IN IF cmd.Err # "" \/ ValidateCommand(cmd, dSrv.reg, dReq.Retry) # ""
          THEN /\ dExits' = Append(dExits, ExitResult(1, "", ID_none))
               /\ dPc' = "done"
               /\ UNCHANGED <<dCmd, dStep>>
          ELSE /\ dCmd' = cmd.Steps
               /\ dStep' = 1
               /\ dPc' = "exec"
               /\ UNCHANGED dExits
    /\ UNCHANGED <<dSrv, dReq, dResult, dLastErr, dInvoked, dTrace>>
    /\ UNCHANGED dFrame
    /\ UNCHANGED <<audVars, notDmnVars>>

\* ExecuteCommand's test with the step's own operator in place of the one
\* before it.
StepSkippedByOwnOp(steps, i, lastErr) ==
    /\ i > 1
    /\ \/ steps[i].Op = OpAndThen /\ lastErr # ""
       \/ steps[i].Op = OpOrElse /\ lastErr = ""

\* ExecuteCommand: the operator before step i and lastErr say whether the
\* step is skipped.
StepSkipped(steps, i, lastErr) ==
    /\ i > 1
    /\ \/ steps[i - 1].Op = OpAndThen /\ lastErr # ""
       \/ steps[i - 1].Op = OpOrElse /\ lastErr = ""

SkipStep ==
    /\ dPc = "exec"
    /\ dStep <= Len(dCmd)
    /\ StepSkipped(dCmd, dStep, dLastErr)
    /\ dStep' = dStep + 1
    /\ dTrace' = Append(dTrace, [Ran |-> FALSE, Err |-> ""])
    /\ UNCHANGED <<dSrv, dPc, dReq, dResult, dCmd, dLastErr, dRunCalled,
                   dInvoked, dExits>>
    /\ UNCHANGED dFrame
    /\ UNCHANGED <<audVars, notDmnVars>>

\* gitSubcommandTier and goSubcommandTier, for the subcommands carried;
\* every subcommand they do not list is dangerous.
gitSubcommandTier(subcmd) ==
    IF subcmd = A_status THEN TierRead
    ELSE IF subcmd = A_checkout THEN TierWrite
    ELSE TierDangerous

goSubcommandTier(subcmd) ==
    IF subcmd = A_build THEN TierBuild
    ELSE TierDangerous

\* The head of Git.Run and GoCmd.Run, with the Run that goes straight to
\* runExternal before it: the registry of the context checks the effective
\* tier of the subcommand.  The other capabilities' Run has no such check.
RunGateOpen(seg, reg) == ""
RunGate(seg, reg) ==
    IF seg.CapName = S_git
    THEN CheckTier(reg, gitSubcommandTier(seg.Args[1]))
    ELSE IF seg.CapName = S_go
    THEN CheckTier(reg, goSubcommandTier(seg.Args[1]))
    ELSE ""

\* What a capability's Run can return: the error of the tier check, or
\* what the external command does: it exits with status 0, exits with
\* another status (ExitError), or fails otherwise (not started, killed).
RunErrors(seg, reg) ==
    IF RunGate(seg, reg) # "" THEN {RunGate(seg, reg)}
    ELSE {"", "exit status 1", "failed"}

\* One call of a capability's Run: Exec says whether it got to runExternal.
Invocation(step, seg, reg) ==
    [Step |-> step, CapName |-> seg.CapName, Args |-> seg.Args,
     Exec |-> RunGate(seg, reg) = ""]

\* What Execute can do with a pipeline: fail to open a redirect file
\* before any Run, or call Run for every segment and return the first
\* error any of them set, nil if none did.
StepOutcomes(p, reg) ==
    LET n == Len(p.Segments)
        errs == UNION {RunErrors(p.Segments[i], reg) \ {""} : i \in 1..n}
        clean == IF \A i \in 1..n : "" \in RunErrors(p.Segments[i], reg)
                 THEN {""} ELSE {}
    IN (IF p.RedirectIn # <<>> \/ p.RedirectOut # <<>>
        THEN {[Err |-> "open failed", Ran |-> FALSE]} ELSE {})
       \cup {[Err |-> e, Ran |-> TRUE] : e \in errs \cup clean}

StepErrors ==
    {"", "exit status 1", "failed", "tier is disabled", "open failed"}

\* lastErr = Execute(...), with the assignment that keeps an earlier error
\* before it.
keepFirstErr(lastErr, err) == IF lastErr # "" THEN lastErr ELSE err
assignLastErr(lastErr, err) == err

\* ExecuteCommand: the step is not skipped; lastErr is what Execute returns.
ExecuteStep(out) ==
    /\ dPc = "exec"
    /\ dStep <= Len(dCmd)
    /\ ~StepSkipped(dCmd, dStep, dLastErr)
    /\ out \in StepOutcomes(dCmd[dStep].Pipeline, dSrv.reg)
    /\ dLastErr' = assignLastErr(dLastErr, out.Err)
    /\ dInvoked' =
           IF out.Ran
           THEN dInvoked \o [i \in 1..Len(dCmd[dStep].Pipeline.Segments) |->
                                Invocation(dStep,
                                           dCmd[dStep].Pipeline.Segments[i],
                                           dSrv.reg)]
           ELSE dInvoked
    /\ dTrace' = Append(dTrace, [Ran |-> TRUE, Err |-> out.Err])
    /\ dStep' = dStep + 1
    /\ UNCHANGED <<dSrv, dPc, dReq, dResult, dCmd, dRunCalled, dExits>>
    /\ UNCHANGED dFrame
    /\ UNCHANGED <<audVars, notDmnVars>>

\* resolveError.
resolveError(err) ==
    IF err = "" THEN [Code |-> 0, Msg |-> ""]
    ELSE IF err = "exit status 1" THEN [Code |-> 1, Msg |-> ""]
    ELSE [Code |-> 2, Msg |-> err]

\* RunCommand after ExecuteCommand: logAudit, with the policy result the
\* handler put in the context, and the handler's ExitResult.
FinishCommand(written) ==
    /\ dPc = "exec"
    /\ dStep > Len(dCmd)
    /\ ServerLog(AuditCall(dReq, resolveError(dLastErr).Code,
                           resolveError(dLastErr).Msg, EvalOptions(dResult)),
                 written)
    /\ dExits' = Append(dExits, ExitResult(resolveError(dLastErr).Code, "",
                                           ID_none))
    /\ dPc' = "done"
    /\ UNCHANGED <<dSrv, dReq, dResult, dCmd, dStep, dLastErr, dRunCalled,
                   dInvoked, dTrace>>
    /\ UNCHANGED dFrame
    /\ UNCHANGED notDmnVars

\* Most steps in a command handed to ExecuteCommand on its own.
MaxSteps == 3

\* Commands of up to MaxSteps steps, each cat x or git push, joined by the
\* three connectors.
RECURSIVE Chains(_)
Chains(n) ==
    IF n = 1 THEN {<<S_cat, A_x>>, <<S_git, A_push>>}
    ELSE {c \o <<op>> \o st :
             c \in Chains(n - 1),
             op \in {OpAndThen, OpOrElse, OpSequential},
             st \in {<<S_cat, A_x>>, <<S_git, A_push>>}}

\* The handler at its call of cli.RunCommand, in a server without policy
\* engines: the request has been read and no policy was evaluated.
InitExecute ==
    /\ dSrv \in {srv \in Servers :
                    ~srv.policyL1.On /\ ~srv.policyL2.On /\ srv.logger}
    /\ dPc = "run"
    /\ dReq \in {Request(a, FALSE, NoToken) :
                    a \in UNION {Chains(n) : n \in 1..MaxSteps}}
    /\ dResult = NotEvaluated
    /\ dCmd = NoSteps
    /\ dStep = 0
    /\ dLastErr = ""
    /\ dRunCalled = FALSE
    /\ dInvoked = <<>>
    /\ dTrace = <<>>
    /\ dFrame = Frame(FALSE, TagRequest, TRUE, dReq)
    /\ dExits = <<>>

NextExecute ==
    \/ RunCommand
    \/ SkipStep
    \/ \E out \in [Err : StepErrors, Ran : BOOLEAN] : ExecuteStep(out)
    \/ \E written \in BOOLEAN : FinishCommand(written)

NextDaemon ==
    \/ \E f \in FirstFrames : RejectFrame(f)
    \/ \E f \in FirstFrames : ReadRequest(f)
    \/ SkipPolicy
    \/ EvaluatePolicy
    \/ \E written \in BOOLEAN : DenyRequest(written)
    \/ RunCommand
    \/ SkipStep
    \/ \E out \in [Err : StepErrors, Ran : BOOLEAN] : ExecuteStep(out)
    \/ \E written \in BOOLEAN : FinishCommand(written)

----------------------------------------------------------------------------
(* The frame writers of a connection: frameWriter.Write over               *)
(* ipc.WriteFrame, and the handler's Exit frame.                           *)

\* Most Write calls of one pipeline goroutine.
MaxWrites == 2

\* The goroutines that write frames while RunCommand runs: the last
\* segment writes stdout, two segments write stderr; and the handler, which
\* writes the Exit frame once RunCommand has returned.
SegmentWriters == {"seg1", "seg2", "seg3"}
FrameWriters == SegmentWriters \cup {"handler"}
FrameTag(w) ==
    IF w = "handler" THEN "exit" ELSE IF w = "seg1" THEN "stdout" ELSE "stderr"

\* The test of connMu.Lock, with the lock that never blocks before it.
ConnMuIgnored == TRUE
ConnMuFree == fwMu = NoCaller

InitFrames ==
    /\ fwMu = NoCaller
    /\ fwPc = [w \in FrameWriters |-> "idle"]
    /\ fwSent = [w \in FrameWriters |-> 0]
    /\ fwWire = <<>>

\* The state of frame writers that no specification step touches.
FramesIdle ==
    /\ fwMu = NoCaller
    /\ fwPc = [w \in FrameWriters |-> "done"]
    /\ fwSent = [w \in FrameWriters |-> 0]
    /\ fwWire = <<>>

\* One write on the connection: the header or the payload of writer w's
\* frame number k.
WirePart(w, k, part) == [Tag |-> FrameTag(w), Writer |-> w, Frame |-> k,
                         Part |-> part]

\* frameWriter.Write with len(p) = 0: returns without a frame.
WriteEmpty(w) ==
    /\ w \in SegmentWriters
    /\ fwPc[w] = "idle"
    /\ fwSent[w] < MaxWrites
    /\ fwSent' = [fwSent EXCEPT ![w] = @ + 1]
    /\ UNCHANGED <<fwMu, fwPc, fwWire>>
    /\ UNCHANGED notFwVars

\* cli.RunCommand has returned: every pipeline goroutine has (Execute
\* waits for its workers, a capability's Run for its output); with the
\* handler that does not wait for it before it.
RunCommandNotAwaited == TRUE
RunCommandReturned == \A v \in SegmentWriters : fwPc[v] = "done"

\* frameWriter.Write: fw.mu.Lock().  The handler locks connMu for the Exit
\* frame after RunCommand has returned.
WriteLock(w) ==
    /\ fwPc[w] = "idle"
    /\ IF w = "handler"
       THEN fwSent[w] = 0 /\ RunCommandReturned
       ELSE fwSent[w] < MaxWrites
    /\ ConnMuFree
    /\ fwMu' = w
    /\ fwPc' = [fwPc EXCEPT ![w] = "header"]
    /\ UNCHANGED <<fwSent, fwWire>>
    /\ UNCHANGED notFwVars

\* ipc.WriteFrame: w.Write(header[:]).
WriteHeader(w) ==
    /\ fwPc[w] = "header"
    /\ fwWire' = Append(fwWire, WirePart(w, fwSent[w] + 1, "header"))
    /\ fwPc' = [fwPc EXCEPT ![w] = "payload"]
    /\ UNCHANGED <<fwMu, fwSent>>
    /\ UNCHANGED notFwVars

\* ipc.WriteFrame: w.Write(payload), then the deferred Unlock.
WritePayload(w) ==
    /\ fwPc[w] = "payload"
    /\ fwWire' = Append(fwWire, WirePart(w, fwSent[w] + 1, "payload"))
    /\ fwSent' = [fwSent EXCEPT ![w] = @ + 1]
    /\ fwMu' = NoCaller
    /\ fwPc' = [fwPc EXCEPT ![w] = IF w = "handler" THEN "done" ELSE "idle"]
    /\ UNCHANGED notFwVars

\* A pipeline goroutine returns.
WriterReturn(w) ==
    /\ w \in SegmentWriters
    /\ fwPc[w] = "idle"
    /\ fwPc' = [fwPc EXCEPT ![w] = "done"]
    /\ UNCHANGED <<fwMu, fwSent, fwWire>>
    /\ UNCHANGED notFwVars

NextFrames ==
    \/ \E w \in SegmentWriters : WriteEmpty(w)
    \/ \E w \in FrameWriters : WriteLock(w)
    \/ \E w \in FrameWriters : WriteHeader(w)
    \/ \E w \in FrameWriters : WritePayload(w)
    \/ \E w \in SegmentWriters : WriterReturn(w)

\* C20: every frame the daemon writes on a connection is written
\* atomically with respect to the others: a header is followed at once by
\* the payload of the same frame, whatever the interleaving of the
\* writers; the frames of one writer are on the wire in the order it wrote
\* them, and the Exit frame comes after every stdout and stderr frame.
C20_FramesAtomic ==
    /\ \A i \in 1..Len(fwWire) :
           IF i % 2 = 1
           THEN /\ fwWire[i].Part = "header"
                /\ i = Len(fwWire) => fwMu = fwWire[i].Writer
           ELSE /\ fwWire[i].Part = "payload"
                /\ fwWire[i].Writer = fwWire[i - 1].Writer
                /\ fwWire[i].Frame = fwWire[i - 1].Frame
    /\ \A i, j \in 1..Len(fwWire) :
           (i < j /\ fwWire[i].Writer = fwWire[j].Writer)
               => fwWire[i].Frame <= fwWire[j].Frame
    /\ \A i, j \in 1..Len(fwWire) :
           (fwWire[i].Tag = "exit" /\ fwWire[j].Tag # "exit") => j < i

\* Stdout and stderr frames of three goroutines, interleaved frame by
\* frame, and the Exit frame after them.
C20_Witness ==
    /\ Len(fwWire) = 10
    /\ fwWire[1].Writer = "seg2"
    /\ fwWire[3].Writer = "seg1"
    /\ fwWire[5].Writer = "seg3"
    /\ fwWire[7].Writer = "seg2"
    /\ fwWire[9].Tag = "exit"
    /\ fwMu = NoCaller

\* The positions on the wire of the headers of Exit frames.
ExitHeaders ==
    {i \in 1..Len(fwWire) :
        fwWire[i].Tag = "exit" /\ fwWire[i].Part = "header"}

\* C37: at most one Exit frame is ever on the wire and nothing but its own
\* payload follows its header; when the handler has finished there is
\* exactly one, it ends the wire, and no writer of stdout or stderr frames
\* is left that could write after it.
C37_ExitFrameLast ==
    /\ Cardinality(ExitHeaders) <= 1
    /\ \A i \in ExitHeaders :
           /\ Len(fwWire) <= i + 1
           /\ \A w \in SegmentWriters : fwPc[w] = "done"
    /\ fwPc["handler"] = "done"
           => /\ Cardinality(ExitHeaders) = 1
              /\ fwWire[Len(fwWire)].Tag = "exit"
              /\ fwWire[Len(fwWire)].Part = "payload"

\* A stderr frame, then a stdout frame, then the Exit frame, the handler
\* finished.
C37_Witness ==
    /\ fwPc["handler"] = "done"
    /\ Len(fwWire) = 6
    /\ fwWire[1].Tag = "stderr"
    /\ fwWire[3].Tag = "stdout"
    /\ ExitHeaders = {5}

----------------------------------------------------------------------------
(* One connection after its Request frame: the client's later frames, the  *)
(* demux goroutine of handleConnection, and the command.                   *)

\* Most frames the client sends after the Request frame.
MaxFrames == 3

ClientTags == {"stdin-data", "stdin-eof", "signal-int"}

\* What client.Relay's stdin pump and client.ForwardSignals send between
\* them: stdin data, then at most one stdin EOF, and signals anywhere.
ClientScript(fs) ==
    \A i \in 1..Len(fs) :
        fs[i] = "stdin-eof"
            => \A j \in (i + 1)..Len(fs) : fs[j] = "signal-int"

ClientScripts ==
    {fs \in UNION {[1..n -> ClientTags] : n \in 1..MaxFrames} :
        ClientScript(fs)}

InitConn ==
    /\ cnToSend \in ClientScripts
    /\ cnSock = <<>>
    /\ cnDemux = "reading"
    /\ cnCmd = "running"
    /\ cnReads \in BOOLEAN
    /\ cnCancelled = FALSE
    /\ cnExit = FALSE

\* The state of a connection that no specification step touches.
ConnIdle ==
    /\ cnToSend = <<>>
    /\ cnSock = <<>>
    /\ cnDemux = "exited"
    /\ cnCmd = "returned"
    /\ cnReads = FALSE
    /\ cnCancelled = FALSE
    /\ cnExit = TRUE

\* The client writes its next frame to the connection.
ClientSend ==
    /\ cnToSend # <<>>
    /\ ~cnExit
    /\ cnSock' = Append(cnSock, Head(cnToSend))
    /\ cnToSend' = Tail(cnToSend)
    /\ UNCHANGED <<cnDemux, cnCmd, cnReads, cnCancelled, cnExit>>
    /\ UNCHANGED notCnVars

\* The demux goroutine: ipc.ReadFrame and the switch on the tag.  Stdin
\* data goes to stdinW.Write, which blocks until the command has read it;
\* stdin EOF returns from the goroutine; signal INT calls reqCancel.
DemuxRead ==
    /\ cnDemux = "reading"
    /\ cnSock # <<>>
    /\ cnSock' = Tail(cnSock)
    /\ cnDemux' = CASE Head(cnSock) = "stdin-data" -> "writing"
                    [] Head(cnSock) = "stdin-eof" -> "exited"
                    [] OTHER -> "reading"
    /\ cnCancelled' = (cnCancelled \/ Head(cnSock) = "signal-int")
    /\ UNCHANGED <<cnToSend, cnCmd, cnReads, cnExit>>
    /\ UNCHANGED notCnVars

\* ipc.ReadFrame fails once the handler has returned and the connection
\* is closed: the goroutine returns.
DemuxReadFails ==
    /\ cnDemux = "reading"
    /\ cnExit
    /\ cnDemux' = "exited"
    /\ UNCHANGED <<cnToSend, cnSock, cnCmd, cnReads, cnCancelled, cnExit>>
    /\ UNCHANGED notCnVars

\* The command reads its stdin: the pending stdinW.Write returns.
CmdReadsStdin ==
    /\ cnCmd = "running"
    /\ cnReads
    /\ cnDemux = "writing"
    /\ cnDemux' = "reading"
    /\ UNCHANGED <<cnToSend, cnSock, cnCmd, cnReads, cnCancelled, cnExit>>
    /\ UNCHANGED notCnVars

\* cli.RunCommand returns: a command that reads stdin to its end returns
\* at EOF (the demux goroutine has closed stdinW), a command that blocks
\* until cancelled returns only once reqCtx is cancelled.
CmdReturns ==
    /\ cnCmd = "running"
    /\ cnCancelled \/ (cnReads /\ cnDemux = "exited")
    /\ cnCmd' = "returned"
    /\ UNCHANGED <<cnToSend, cnSock, cnDemux, cnReads, cnCancelled, cnExit>>
    /\ UNCHANGED notCnVars

\* ipc.WriteJSON(conn, ipc.TagExit, ...) after RunCommand.
WriteExit ==
    /\ cnCmd = "returned"
    /\ ~cnExit
    /\ cnExit' = TRUE
    /\ UNCHANGED <<cnToSend, cnSock, cnDemux, cnCmd, cnReads, cnCancelled>>
    /\ UNCHANGED notCnVars

NextConn ==
    \/ ClientSend
    \/ DemuxRead
    \/ DemuxReadFails
    \/ CmdReadsStdin
    \/ CmdReturns
    \/ WriteExit

\* A signal-INT frame has been sent and not yet read.
IntUnread == \E i \in 1..Len(cnSock) : cnSock[i] = "signal-int"

\* The demux goroutine will read no further frame: it has returned, or it
\* is blocked writing stdin data to a command that never reads it.
DemuxStopped == cnDemux = "exited" \/ (cnDemux = "writing" /\ ~cnReads)

\* C17 as stated: a signal-INT frame sent while the command runs cancels
\* the request's context, for every ordering of the client's frames; so
\* there is never a sent and unread signal-INT frame, a running and
\* uncancelled command, and a demux goroutine that reads no more.
C17_Original ==
    ~(cnCmd = "running" /\ ~cnCancelled /\ IntUnread /\ DemuxStopped)

----------------------------------------------------------------------------
(* Server.Serve: the accept loop, the idle timer and the connection        *)
(* handlers.  Time is abstracted: the timer may fire whenever it is armed, *)
(* that is, a request may last longer than idleTimeout.                    *)

\* Most connections accepted in one run of Serve.
MaxConns == 3

Conns == 1..MaxConns

Running(h) == svHandlers[h] = "running"

\* s.active.Wait() returning, with the wait that never blocks before it.
ActiveIgnored == TRUE
ActiveZero == \A h \in Conns : ~Running(h)

InitServe ==
    /\ svPc = "accept"
    /\ svResult = "none"
    /\ svCtxDone = FALSE
    /\ svIdleDone = FALSE
    /\ svTimer = "armed"
    /\ svLnClosed = FALSE
    /\ svHandlers = [h \in Conns |-> "none"]

\* The state of a server that no specification step touches.
ServeIdle ==
    /\ svPc = "returned"
    /\ svResult = "nil"
    /\ svCtxDone = FALSE
    /\ svIdleDone = TRUE
    /\ svTimer = "fired"
    /\ svLnClosed = TRUE
    /\ svHandlers = [h \in Conns |-> "none"]

\* time.AfterFunc(s.idleTimeout, idleCancel): the timer expires and calls
\* idleCancel; the call tests nothing.
TimerFire ==
    /\ svTimer = "armed"
    /\ svTimer' = "fired"
    /\ svIdleDone' = TRUE
    /\ UNCHANGED <<svPc, svResult, svCtxDone, svLnClosed, svHandlers>>
    /\ UNCHANGED notSvVars

\* The caller cancels ctx; idleCtx is derived from it.
CtxCancel ==
    /\ ~svCtxDone
    /\ svCtxDone' = TRUE
    /\ svIdleDone' = TRUE
    /\ UNCHANGED <<svPc, svResult, svTimer, svLnClosed, svHandlers>>
    /\ UNCHANGED notSvVars

\* go func() { <-idleCtx.Done(); ln.Close() }()
CloseListener ==
    /\ svIdleDone
    /\ ~svLnClosed
    /\ svLnClosed' = TRUE
    /\ UNCHANGED <<svPc, svResult, svCtxDone, svIdleDone, svTimer, svHandlers>>
    /\ UNCHANGED notSvVars

\* ln.Accept() returns a connection: resetIdle, active.Add(1) and the
\* handler goroutine starts with idleCtx.
Accept(h) ==
    /\ svPc = "accept"
    /\ ~svLnClosed
    /\ svHandlers[h] = "none"
    /\ \A g \in Conns : g < h => svHandlers[g] # "none"
    /\ svTimer' = "armed"
    /\ svHandlers' = [svHandlers EXCEPT ![h] = "running"]
    /\ UNCHANGED <<svPc, svResult, svCtxDone, svIdleDone, svLnClosed>>
    /\ UNCHANGED notSvVars

\* ln.Accept() returns an error: because the listener is closed, or for a
\* reason of its own (other).  With idleCtx done Serve goes on to
\* s.active.Wait(); otherwise it returns the error, and its deferred calls
\* cancel idleCtx and close the listener.
AcceptFails(other) ==
    /\ svPc = "accept"
    /\ svLnClosed \/ other
    /\ IF svIdleDone
       THEN /\ svPc' = "wait"
            /\ UNCHANGED <<svResult, svIdleDone, svLnClosed>>
       ELSE /\ svPc' = "returned"
            /\ svResult' = "error"
            /\ svIdleDone' = TRUE
            /\ svLnClosed' = TRUE
    /\ UNCHANGED <<svCtxDone, svTimer, svHandlers>>
    /\ UNCHANGED notSvVars

\* s.active.Wait() returns and Serve returns nil; the deferred calls cancel
\* idleCtx and close the listener.
WaitDone ==
    /\ svPc = "wait"
    /\ ActiveZero
    /\ svPc' = "returned"
    /\ svResult' = "nil"
    /\ svIdleDone' = TRUE
    /\ svLnClosed' = TRUE
    /\ UNCHANGED <<svCtxDone, svTimer, svHandlers>>
    /\ UNCHANGED notSvVars

\* handleConnection returns: the deferred resetIdle, conn.Close and
\* active.Done.
HandlerFinish(h) ==
    /\ Running(h)
    /\ svTimer' = "armed"
    /\ svHandlers' = [svHandlers EXCEPT ![h] = "done"]
    /\ UNCHANGED <<svPc, svResult, svCtxDone, svIdleDone, svLnClosed>>
    /\ UNCHANGED notSvVars

NextServe ==
    \/ TimerFire
    \/ CtxCancel
    \/ CloseListener
    \/ \E h \in Conns : Accept(h)
    \/ \E other \in BOOLEAN : AcceptFails(other)
    \/ WaitDone
    \/ \E h \in Conns : HandlerFinish(h)

\* C18 as stated: while a request is being handled (and neither the caller
\* has cancelled nor Serve has returned), the context its handler runs
\* under, idleCtx, is not cancelled: expiry of the idle timer leaves the
\* request alone.
C18_Original ==
    \A h \in Conns :
        (Running(h) /\ ~svCtxDone /\ svPc # "returned") => ~svIdleDone

\* C19 as stated: Serve never returns while a connection handler is still
\* running.
C19_Original == svPc = "returned" => \A h \in Conns : ~Running(h)

\* C19: Serve returns in one of two ways.  With idleCtx done (the idle
\* timer fired or the caller cancelled) when Accept fails, it returns nil,
\* and only once no connection handler is running; with idleCtx not done
\* when Accept fails, it returns the accept error at once, whatever the
\* handlers are doing.
C19_ReturnsNilAfterHandlers ==
    [][(svPc # "returned" /\ svPc' = "returned")
          => IF svPc = "wait"
             THEN /\ svIdleDone
                  /\ \A h \in Conns : ~Running(h)
                  /\ svResult' = "nil"
             ELSE ~svIdleDone /\ svResult' = "error"]_vars

\* The caller cancelled while two connections were being handled, and
\* Serve has returned nil after both handlers finished.
C19_Witness ==
    /\ svPc = "returned"
    /\ svResult = "nil"
    /\ svCtxDone
    /\ svHandlers[1] = "done"
    /\ svHandlers[2] = "done"

----------------------------------------------------------------------------
(* client.Relay after the Request frame is sent: the stdin pump goroutine  *)
(* and the loop that reads the daemon's frames.                            *)

\* Most stdin chunks, and most output frames of the daemon.
MaxChunks == 2

\* What the caller's stdin gives: chunks of data, and then either EOF or
\* nothing more, for ever.
StdinScripts ==
    {[i \in 1..n |-> "data"] \o <<end>> :
        n \in 0..MaxChunks, end \in {"eof", "silent"}}

\* What the daemon sends: stdout and stderr frames, and then the Exit
\* frame with its code, or nothing (the connection breaks).
DaemonScripts ==
    {out \o <<end>> :
        out \in UNION {[1..n -> {"stdout", "stderr"}] : n \in 0..MaxChunks},
        end \in {"exit 0", "exit 1", "broken"}}

InitRelay ==
    /\ rlStdin \in StdinScripts
    /\ rlPump = "reading"
    /\ rlSrv \in DaemonScripts
    /\ rlClosed = FALSE
    /\ rlMain = "reading"
    /\ rlCode = "none"
    /\ rlOut = <<>>

\* The state of a client that no specification step touches.
RelayIdle ==
    /\ rlStdin = <<>>
    /\ rlPump = "done"
    /\ rlSrv = <<>>
    /\ rlClosed = TRUE
    /\ rlMain = "returned"
    /\ rlCode = "none"
    /\ rlOut = <<>>

\* The daemon's handler returns and its end of the connection is closed;
\* the frames it wrote can still be read.
DaemonCloses ==
    /\ ~rlClosed
    /\ rlClosed' = TRUE
    /\ UNCHANGED <<rlStdin, rlPump, rlSrv, rlMain, rlCode, rlOut>>
    /\ UNCHANGED notRlVars

\* The pump: stdin.Read returns data, which goes out as a stdin-data
\* frame; the goroutine returns if the write fails.
PumpData ==
    /\ rlPump = "reading"
    /\ Head(rlStdin) = "data"
    /\ rlStdin' = Tail(rlStdin)
    /\ rlPump' = IF rlClosed THEN "done" ELSE "reading"
    /\ UNCHANGED <<rlSrv, rlClosed, rlMain, rlCode, rlOut>>
    /\ UNCHANGED notRlVars

\* The pump: stdin.Read returns io.EOF; the stdin-EOF frame is written and
\* the goroutine returns.  A stdin that is silent never returns from Read.
PumpEOF ==
    /\ rlPump = "reading"
    /\ Head(rlStdin) = "eof"
    /\ rlStdin' = Tail(rlStdin)
    /\ rlPump' = "done"
    /\ UNCHANGED <<rlSrv, rlClosed, rlMain, rlCode, rlOut>>
    /\ UNCHANGED notRlVars

\* wg.Wait() returns once the pump goroutine has returned.
PumpDone == rlPump = "done"

\* The loop: ipc.ReadFrame and the switch on the tag.  Output frames are
\* written to stdout or stderr; the Exit frame and a read error end the
\* loop, which then waits for the pump.
RelayRead ==
    /\ rlMain = "reading"
    /\ rlSrv # <<>>
    /\ Head(rlSrv) = "broken" => rlClosed
    /\ rlSrv' = Tail(rlSrv)
    /\ rlOut' = IF Head(rlSrv) \in {"stdout", "stderr"}
                THEN Append(rlOut, Head(rlSrv)) ELSE rlOut
    /\ rlMain' = CASE Head(rlSrv) \in {"stdout", "stderr"} -> "reading"
                   [] Head(rlSrv) = "broken" -> "waiting after error"
                   [] OTHER -> "waiting after exit"
    /\ rlCode' = CASE Head(rlSrv) = "exit 0" -> "0"
                   [] Head(rlSrv) = "exit 1" -> "1"
                   [] Head(rlSrv) = "broken" -> "2"
                   [] OTHER -> rlCode
    /\ UNCHANGED <<rlStdin, rlPump, rlClosed>>
    /\ UNCHANGED notRlVars

\* wg.Wait() returns and Relay returns the code.
RelayReturns ==
    /\ rlMain \in {"waiting after error", "waiting after exit"}
    /\ PumpDone
    /\ rlMain' = "returned"
    /\ UNCHANGED <<rlStdin, rlPump, rlSrv, rlClosed, rlCode, rlOut>>
    /\ UNCHANGED notRlVars

NextRelay ==
    \/ DaemonCloses
    \/ PumpData
    \/ PumpEOF
    \/ RelayRead
    \/ RelayReturns

\* C22 as stated: once the ExitResult frame has been read Relay returns
\* the exit code, whatever the caller's stdin does; so Relay is never
\* waiting, with the Exit frame read, for a pump that is blocked reading a
\* stdin that gives nothing more.
C22_Original ==
    ~(/\ rlMain = "waiting after exit"
      /\ rlPump = "reading"
      /\ Head(rlStdin) = "silent")

----------------------------------------------------------------------------
(* Server.Run and cleanStaleSocket: daemons starting and shutting down on  *)
(* the one socket path and PID file.                                       *)

\* The daemons started on the socket path.
MaxDaemons == 2

Daemons == 1..MaxDaemons

\* What a path holds: nothing, a file left behind with no process behind
\* it, or what daemon d put there.
Nothing == [Kind |-> "none", Owner |-> 0]
Stale == [Kind |-> "stale", Owner |-> 0]
Of(d) == [Kind |-> "live", Owner |-> d]

InitSocket ==
    /\ skFile \in {Nothing, Stale}
    /\ skPid \in {Nothing, Stale}
    /\ skPc = [d \in Daemons |-> "stat"]
    /\ skListening = {}

\* The state of a socket path that no specification step touches.
SocketIdle ==
    /\ skFile = Nothing
    /\ skPid = Nothing
    /\ skPc = [d \in Daemons |-> "exited"]
    /\ skListening = {}

\* The process of daemon d exists: Run has neither failed nor returned.
Alive(d) == skPc[d] \notin {"refused", "exited"}

\* cleanStaleSocket: os.Stat; no file means nothing to clean.
StatSocket(d) ==
    /\ skPc[d] = "stat"
    /\ skPc' = [skPc EXCEPT ![d] = IF skFile = Nothing THEN "listen"
                                  ELSE "dial"]
    /\ UNCHANGED <<skFile, skPid, skListening>>
    /\ UNCHANGED notSkVars

\* cleanStaleSocket: net.Dial succeeds when the file is the socket of an
\* open listener, and the daemon refuses to start.
DialSocket(d) ==
    /\ skPc[d] = "dial"
    /\ skPc' = [skPc EXCEPT ![d] =
                   IF skFile.Kind = "live" /\ skFile.Owner \in skListening
                   THEN "refused" ELSE "pid"]
    /\ UNCHANGED <<skFile, skPid, skListening>>
    /\ UNCHANGED notSkVars

\* cleanStaleSocket: the PID file names a process that answers signal 0,
\* and the daemon refuses to start.
CheckPid(d) ==
    /\ skPc[d] = "pid"
    /\ skPc' = [skPc EXCEPT ![d] =
                   IF skPid.Kind = "live" /\ Alive(skPid.Owner)
                   THEN "refused" ELSE "remove"]
    /\ UNCHANGED <<skFile, skPid, skListening>>
    /\ UNCHANGED notSkVars

\* cleanStaleSocket: os.Remove(sockPath), whatever the path holds by now;
\* its error, when the file is gone, is Run's.
RemoveStale(d) ==
    /\ skPc[d] = "remove"
    /\ skFile' = Nothing
    /\ skPc' = [skPc EXCEPT ![d] = IF skFile = Nothing THEN "refused"
                                  ELSE "listen"]
    /\ UNCHANGED <<skPid, skListening>>
    /\ UNCHANGED notSkVars

\* Run: net.Listen binds the path, which fails when the path exists.
Listen(d) ==
    /\ skPc[d] = "listen"
    /\ IF skFile = Nothing
       THEN /\ skFile' = Of(d)
            /\ skListening' = skListening \cup {d}
            /\ skPc' = [skPc EXCEPT ![d] = "writepid"]
       ELSE /\ skPc' = [skPc EXCEPT ![d] = "refused"]
            /\ UNCHANGED <<skFile, skListening>>
    /\ UNCHANGED skPid
    /\ UNCHANGED notSkVars

\* Run: os.Chmod and writePidFile, then Serve.
WritePid(d) ==
    /\ skPc[d] = "writepid"
    /\ skPid' = Of(d)
    /\ skPc' = [skPc EXCEPT ![d] = "serving"]
    /\ UNCHANGED <<skFile, skListening>>
    /\ UNCHANGED notSkVars

\* Serve returns: its deferred ln.Close().
CloseOwnListener(d) ==
    /\ skPc[d] = "serving"
    /\ skListening' = skListening \ {d}
    /\ skPc' = [skPc EXCEPT ![d] = "cleanup"]
    /\ UNCHANGED <<skFile, skPid>>
    /\ UNCHANGED notSkVars

\* Run's deferred function: os.Remove of the socket path and of the PID
\* file, whatever they hold.
RemoveFiles(d) ==
    /\ skPc[d] = "cleanup"
    /\ skFile' = Nothing
    /\ skPid' = Nothing
    /\ skPc' = [skPc EXCEPT ![d] = "exited"]
    /\ UNCHANGED skListening
    /\ UNCHANGED notSkVars

\* The daemon is spawned again (client.ConnectOrSpawn).
Respawn(d) ==
    /\ skPc[d] \in {"refused", "exited"}
    /\ skPc' = [skPc EXCEPT ![d] = "stat"]
    /\ UNCHANGED <<skFile, skPid, skListening>>
    /\ UNCHANGED notSkVars

NextSocket ==
    \/ \E d \in Daemons : StatSocket(d)
    \/ \E d \in Daemons : DialSocket(d)
    \/ \E d \in Daemons : CheckPid(d)
    \/ \E d \in Daemons : RemoveStale(d)
    \/ \E d \in Daemons : Listen(d)
    \/ \E d \in Daemons : WritePid(d)
    \/ \E d \in Daemons : CloseOwnListener(d)
    \/ \E d \in Daemons : RemoveFiles(d)
    \/ \E d \in Daemons : Respawn(d)

\* C23 as stated: whenever a daemon is listening, the socket path refers
\* to that daemon's listener, for every interleaving of start-ups and
\* shut-downs.
C23_Original == \A d \in skListening : skFile = Of(d)

----------------------------------------------------------------------------
(* The daemon's claims.                                                    *)

\* The segments of every step of the request's command, when it parses.
CommandSegments == PolicySegments(ParseCommand(dReq.Args).Steps)

\* The handler has replied and returned.
Replied == dPc = "done"

\* C1: a command with, in any segment of any step, an rm with a recursive
\* flag and a target of /, ., .., ~ or ~/... is never executed: whatever
\* retry is and whether or not Level 1 is enabled, no capability's Run is
\* invoked for any segment of any step of it.
C1_CatastrophicRmNeverRuns ==
    CatastrophicRequest(CommandSegments) => dInvoked = <<>>

\* The case of C1 that only the rule set under Validate stops: Level 1 is
\* off, the dangerous tier is on, retry is set, the catastrophic rm is in a
\* later step, and RunCommand was called and returned.
C1_Witness ==
    /\ Replied
    /\ dRunCalled
    /\ ~dSrv.policyL1.On
    /\ dSrv.reg.Tiers[TierDangerous]
    /\ dReq.Retry
    /\ Len(ParseCommand(dReq.Args).Steps) > 1
    /\ CatastrophicSeg(CommandSegments[Len(CommandSegments)])
    /\ dInvoked = <<>>
    /\ dExits = <<ExitResult(1, "", ID_none)>>

\* C8: when the policy evaluation of a request ends in Escalate at the
\* last enabled level, the daemon does not run the command, and the
\* ExitResult it replies with carries a fresh approval token.
C8_Original ==
    (Replied /\ dResult.Decision = Escalate)
        => /\ ~dRunCalled
           /\ dInvoked = <<>>
           /\ Len(dExits) = 1
           /\ dExits[1].PolicyEscalate # NoToken

\* C9: a request that carries an approval token and is run without policy
\* evaluation is recorded in the audit entry as policy level 3 with rule
\* id approval-token.
C9_Original ==
    (/\ Replied
     /\ dReq.Approved # NoToken
     /\ dResult = NotEvaluated
     /\ dInvoked # <<>>
     /\ auFile # <<>>)
        => /\ auFile[Len(auFile)].PolicyLevel = 3
           /\ auFile[Len(auFile)].PolicyRuleID
                  = RuleId("approval-token", <<>>, <<>>)

\* The reply to a denied request: one ExitResult, code 1, naming the rule.
DenyReply ==
    /\ Len(dExits) = 1
    /\ dExits[1].Code = 1
    /\ dExits[1].PolicyDeny = dResult.RuleID
    /\ dResult.RuleID # ID_none

\* The audit entry of a denied request: exit code 1 and the rule id.
DenialEntry(e) ==
    /\ e.ExitCode = 1
    /\ e.PolicyRuleID = dResult.RuleID
    /\ e.PolicyResult = Deny

SegmentPasses(seg) ==
    /\ Lookup(seg.CapName)
    /\ CheckTier(dSrv.reg, CapTier(seg.CapName)) = ""
    /\ RuleSetCheck(dSrv.reg.Rules, seg.CapName, seg.Args, dReq.Retry) = ""
    /\ CapValidate(seg.CapName, seg.Args) = ""

\* C11 as stated: no segment of any step starts running unless every
\* segment of every step has passed validation, the subcommand-dependent
\* effective tier of git and go included.
C11_Original ==
    dInvoked # <<>>
        => \A i \in 1..Len(CommandSegments) :
               /\ SegmentPasses(CommandSegments[i])
               /\ RunGate(CommandSegments[i], dSrv.reg) = ""

\* C11, amended: no segment of any step starts running unless every
\* segment of every step has passed validation: capability known, base
\* tier enabled, no rule rejecting its arguments, argument validation
\* succeeding.
C11_ValidatedBeforeAnyRun ==
    dInvoked # <<>>
        => \A i \in 1..Len(CommandSegments) :
               SegmentPasses(CommandSegments[i])

\* A command of two steps whose first segment passes and whose last one
\* does not: RunCommand returned and nothing ran.
C11_Witness ==
    /\ Replied
    /\ dRunCalled
    /\ Len(ParseCommand(dReq.Args).Steps) = 2
    /\ SegmentPasses(CommandSegments[1])
    /\ ~SegmentPasses(CommandSegments[Len(CommandSegments)])
    /\ dInvoked = <<>>

\* The subcommands gitSubcommandTier and goSubcommandTier list, among the
\* ones carried.
ListedSubcommands(capName) ==
    IF capName = S_git THEN {A_status, A_checkout, A_push, A_reset}
    ELSE {A_build, A_run}

\* C12: git and go never get to their external process for a subcommand
\* whose effective tier is disabled in the registry: Run returns an error
\* instead, and a subcommand that is not listed needs the dangerous tier.
C12_EffectiveTierGate ==
    \A i \in 1..Len(dInvoked) :
        LET e == dInvoked[i]
            tier == IF e.CapName = S_git THEN gitSubcommandTier(e.Args[1])
                    ELSE goSubcommandTier(e.Args[1])
        IN e.CapName \in {S_git, S_go}
              => /\ e.Exec => dSrv.reg.Tiers[tier]
                 /\ ~dSrv.reg.Tiers[tier]
                        => ~e.Exec /\ dTrace[e.Step].Err # ""
                 /\ (e.Exec /\ e.Args[1] \notin ListedSubcommands(e.CapName))
                        => dSrv.reg.Tiers[TierDangerous]

\* git with a subcommand that is not listed passed validation, its Run
\* was called and returned the disabled-tier error: exit code 2.
C12_Witness ==
    /\ Replied
    /\ Len(dInvoked) = 1
    /\ dInvoked[1].CapName = S_git
    /\ dInvoked[1].Args = <<A_x>>
    /\ ~dInvoked[1].Exec
    /\ dTrace = <<[Ran |-> TRUE, Err |-> "tier is disabled"]>>
    /\ dExits = <<ExitResult(2, "", ID_none)>>

\* The connector written after step i of the request's command.
ConnectorAfter(i) == ParseCommand(dReq.Args).Steps[i].Op

\* The result of the most recent step before step i that ran.
RECURSIVE LastRanErr(_)
LastRanErr(i) ==
    IF i = 0 THEN ""
    ELSE IF dTrace[i].Ran THEN dTrace[i].Err
    ELSE LastRanErr(i - 1)

\* C15: ExecuteCommand takes the steps in order, one at a time; the first
\* step runs, and a later step runs iff the connector of the step before
\* it is sequential, or and-then with a nil last error, or or-else with a
\* non-nil one, the last error being the result of the most recent step
\* that ran.
C15_StepsRunByConnector ==
    /\ dPc = "exec" => Len(dTrace) = dStep - 1
    /\ \A i \in 1..Len(dTrace) :
           dTrace[i].Ran
               <=> \/ i = 1
                   \/ ConnectorAfter(i - 1) = OpSequential
                   \/ ConnectorAfter(i - 1) = OpAndThen /\ LastRanErr(i - 1) = ""
                   \/ ConnectorAfter(i - 1) = OpOrElse /\ LastRanErr(i - 1) # ""

\* Three steps: the first fails, the and-then step after it is skipped,
\* and the or-else step after that runs on the first step's error.
C15_Witness ==
    /\ Replied
    /\ Len(dTrace) = 3
    /\ ConnectorAfter(1) = OpAndThen
    /\ ConnectorAfter(2) = OpOrElse
    /\ dTrace[1].Ran /\ dTrace[1].Err # ""
    /\ ~dTrace[2].Ran
    /\ dTrace[3].Ran

\* The exit code for the result of a command: 0 for nil, the status of an
\* ExitError, 2 for any other error.
ExitCodeOf(err) ==
    IF err = "" THEN 0 ELSE IF err = "exit status 1" THEN 1 ELSE 2

\* C16: the result of a compound command is the result of the last step
\* that ran, nil when that step succeeded even if an earlier one failed,
\* and the exit code reported is derived from that result only.
C16_ResultOfLastStepRun ==
    /\ dPc = "exec" => dLastErr = LastRanErr(Len(dTrace))
    /\ (Replied /\ dTrace # <<>>)
           => /\ dLastErr = LastRanErr(Len(dTrace))
              /\ Len(dExits) = 1
              /\ dExits[1].Code = ExitCodeOf(LastRanErr(Len(dTrace)))

\* The first step failed, the last step ran and succeeded: exit code 0.
C16_Witness ==
    /\ Replied
    /\ Len(dTrace) = 3
    /\ dTrace[1].Ran /\ dTrace[1].Err = "failed"
    /\ dTrace[3].Ran /\ dTrace[3].Err = ""
    /\ dExits = <<ExitResult(0, "", ID_none)>>

\* C21: when the first frame on a connection cannot be read, does not
\* carry the request tag, or carries a payload that does not unmarshal
\* into a Request, the handler has returned (the connection is then
\* closed) after exactly one ExitResult, of code 2 with a message; no
\* policy was evaluated, RunCommand was not called, no capability ran and
\* nothing was logged.
C21_BadFirstFrameRejected ==
    (/\ dFrame # NoFrame
     /\ dFrame.ReadErr \/ dFrame.Tag # TagRequest \/ ~dFrame.Valid)
        => /\ Replied
           /\ Len(dExits) = 1
           /\ dExits[1].Code = 2
           /\ dExits[1].Error # ""
           /\ dResult = NotEvaluated
           /\ ~dRunCalled
           /\ dInvoked = <<>>
           /\ auCalls = <<>>

\* A stdin-data frame came first, with a payload that would unmarshal, on
\* a server with Level 1 and a logger; the reply is code 2.
C21_Witness ==
    /\ dFrame.Tag = TagStdinData
    /\ ~dFrame.ReadErr
    /\ dFrame.Valid
    /\ dSrv.policyL1.On
    /\ dSrv.logger
    /\ dExits = <<ExitResult(2, "expected request frame", ID_none)>>

\* C24 as stated: every invocation handled by a server with a logger
\* results in exactly one audit entry: once the reply to a request is
\* written, Logger.Log has been called once, whatever the outcome.
C24_Original ==
    (Replied /\ dSrv.logger /\ dFrame # NoFrame /\ dReq = dFrame.Req
        /\ ~(dFrame.ReadErr \/ dFrame.Tag # TagRequest \/ ~dFrame.Valid))
        => Len(auCalls) = 1

\* C26 as stated: a command that fails because a tier is disabled is
\* answered with exit code 1, also when the failure is that of the
\* effective-tier check of git or go at run time.
C26_Original ==
    (Replied /\ dLastErr = "tier is disabled") => dExits[1].Code = 1

----------------------------------------------------------------------------
(* pipeline.Execute: the segment workers and the pipes between them.       *)
(*                                                                         *)
(* The redirect files are open and, for n > 1, the n-1 pipes are made.     *)
(* Worker i reads pipe i-1 and writes pipe i.  An io.Pipe has no buffer: a *)
(* Write returns when a Read took the data or the read side was closed, a  *)
(* Read when a Write gave data or the write side was closed.  Neither      *)
(* looks at the context.                                                   *)

\* Most segments in a pipeline.
MaxWorkers == 3

Workers == 1..MaxWorkers
PipeIds == 1..(MaxWorkers - 1)

NoErr == [Worker |-> 0, Kind |-> "nil"]
ErrOf(i, kind) == [Worker |-> i, Kind |-> kind]
NotReturned == [Done |-> FALSE, Err |-> NoErr]

InitPipes ==
    /\ pxSegs \in Workers
    /\ pxLookup \in [Workers -> BOOLEAN]
    /\ \A i \in Workers : i > pxSegs => pxLookup[i]
    /\ pxPc = [i \in Workers |-> IF i <= pxSegs THEN "start" ELSE "none"]
    /\ pxRunErr = [i \in Workers |-> NoErr]
    /\ pxWClosed = [k \in PipeIds |-> FALSE]
    /\ pxRClosed = [k \in PipeIds |-> FALSE]
    /\ firstErr = NoErr
    /\ pxCancelled = FALSE
    /\ pxRecorded = <<>>
    /\ pxReturned = NotReturned

\* The state of an Execute that no specification step touches.
PipesIdle ==
    /\ pxSegs = 0
    /\ pxLookup = [i \in Workers |-> TRUE]
    /\ pxPc = [i \in Workers |-> "none"]
    /\ pxRunErr = [i \in Workers |-> NoErr]
    /\ pxWClosed = [k \in PipeIds |-> FALSE]
    /\ pxRClosed = [k \in PipeIds |-> FALSE]
    /\ firstErr = NoErr
    /\ pxCancelled = FALSE
    /\ pxRecorded = <<>>
    /\ pxReturned = NotReturned

\* setErr: the first non-nil error is kept and cancels the scope; with the
\* setErr that keeps the latest error before it.
setErrKeepsLast(err) ==
    /\ firstErr' = IF err = NoErr THEN firstErr ELSE err
    /\ pxCancelled' = (pxCancelled \/ err # NoErr)
    /\ pxRecorded' = IF err = NoErr THEN pxRecorded
                     ELSE Append(pxRecorded, err)

setErr(err) ==
    /\ firstErr' = IF err # NoErr /\ firstErr = NoErr THEN err ELSE firstErr
    /\ pxCancelled' = (pxCancelled \/ (err # NoErr /\ firstErr = NoErr))
    /\ pxRecorded' = IF err = NoErr THEN pxRecorded
                     ELSE Append(pxRecorded, err)

\* n == 1: Lookup and Run in Execute's own goroutine; their error is what
\* Execute returns.
ExecuteSingle(err) ==
    /\ pxSegs = 1
    /\ pxPc[1] = "start"
    /\ err.Worker = 1
    /\ pxLookup[1] <=> err.Kind \in {"nil", "run"}
    /\ pxPc' = [pxPc EXCEPT ![1] = "done"]
    /\ pxRecorded' = IF err = NoErr THEN pxRecorded
                     ELSE Append(pxRecorded, err)
    /\ pxReturned' = [Done |-> TRUE, Err |-> err]
    /\ UNCHANGED <<pxSegs, pxLookup, pxRunErr, pxWClosed, pxRClosed, firstErr,
                   pxCancelled>>
    /\ UNCHANGED notPxVars

\* The worker's Lookup fails: setErr, and the worker returns.
WorkerLookupFails(i) ==
    /\ pxSegs > 1
    /\ pxPc[i] = "start"
    /\ ~pxLookup[i]
    /\ setErr(ErrOf(i, "lookup"))
    /\ pxPc' = [pxPc EXCEPT ![i] = "done"]
    /\ UNCHANGED <<pxSegs, pxLookup, pxRunErr, pxWClosed, pxRClosed,
                   pxReturned>>
    /\ UNCHANGED notPxVars

\* The worker's Lookup succeeds and it calls c.Run.
WorkerRun(i) ==
    /\ pxSegs > 1
    /\ pxPc[i] = "start"
    /\ pxLookup[i]
    /\ pxPc' = [pxPc EXCEPT ![i] = "run"]
    /\ UNCHANGED <<pxSegs, pxLookup, pxRunErr, pxWClosed, pxRClosed, firstErr,
                   pxCancelled, pxRecorded, pxReturned>>
    /\ UNCHANGED notPxVars

\* The capability reads its input, the pipe from the worker before.
RunReads(i) ==
    /\ pxPc[i] = "run"
    /\ i > 1
    /\ pxPc' = [pxPc EXCEPT ![i] = "reading"]
    /\ UNCHANGED <<pxSegs, pxLookup, pxRunErr, pxWClosed, pxRClosed, firstErr,
                   pxCancelled, pxRecorded, pxReturned>>
    /\ UNCHANGED notPxVars

\* The capability writes its output, the pipe to the next worker.
RunWrites(i) ==
    /\ pxPc[i] = "run"
    /\ i < pxSegs
    /\ pxPc' = [pxPc EXCEPT ![i] = "writing"]
    /\ UNCHANGED <<pxSegs, pxLookup, pxRunErr, pxWClosed, pxRClosed, firstErr,
                   pxCancelled, pxRecorded, pxReturned>>
    /\ UNCHANGED notPxVars

\* A Write on pipe k meets a Read: both return.
PipeTransfer(k) ==
    /\ pxPc[k] = "writing"
    /\ pxPc[k + 1] = "reading"
    /\ pxPc' = [pxPc EXCEPT ![k] = "run", ![k + 1] = "run"]
    /\ UNCHANGED <<pxSegs, pxLookup, pxRunErr, pxWClosed, pxRClosed, firstErr,
                   pxCancelled, pxRecorded, pxReturned>>
    /\ UNCHANGED notPxVars

\* A Read returns because the write side of the pipe is closed.
ReadSeesClose(i) ==
    /\ pxPc[i] = "reading"
    /\ pxWClosed[i - 1]
    /\ pxPc' = [pxPc EXCEPT ![i] = "run"]
    /\ UNCHANGED <<pxSegs, pxLookup, pxRunErr, pxWClosed, pxRClosed, firstErr,
                   pxCancelled, pxRecorded, pxReturned>>
    /\ UNCHANGED notPxVars

\* A Write returns an error because the read side of the pipe is closed.
WriteSeesClose(i) ==
    /\ pxPc[i] = "writing"
    /\ pxRClosed[i]
    /\ pxPc' = [pxPc EXCEPT ![i] = "run"]
    /\ UNCHANGED <<pxSegs, pxLookup, pxRunErr, pxWClosed, pxRClosed, firstErr,
                   pxCancelled, pxRecorded, pxReturned>>
    /\ UNCHANGED notPxVars

\* c.Run returns, the capability not being inside a Read or a Write of a
\* pipe: with nil, with an error of its own, or, the context cancelled,
\* with the error of the killed command.
RunReturns(i, kind) ==
    /\ pxPc[i] = "run"
    /\ kind = "killed" => pxCancelled
    /\ pxRunErr' = [pxRunErr EXCEPT ![i] =
                        IF kind = "nil" THEN NoErr ELSE ErrOf(i, kind)]
    /\ pxPc' = [pxPc EXCEPT ![i] = "ran"]
    /\ UNCHANGED <<pxSegs, pxLookup, pxWClosed, pxRClosed, firstErr,
                   pxCancelled, pxRecorded, pxReturned>>
    /\ UNCHANGED notPxVars

\* setErr(err) after c.Run.
WorkerSetErr(i) ==
    /\ pxPc[i] = "ran"
    /\ setErr(pxRunErr[i])
    /\ pxPc' = [pxPc EXCEPT ![i] = "closeW"]
    /\ UNCHANGED <<pxSegs, pxLookup, pxRunErr, pxWClosed, pxRClosed,
                   pxReturned>>
    /\ UNCHANGED notPxVars

\* if i < n-1: pipes[i].w.Close() or CloseWithError(err).
WorkerCloseWriter(i) ==
    /\ pxPc[i] = "closeW"
    /\ pxWClosed' = IF i < pxSegs THEN [pxWClosed EXCEPT ![i] = TRUE]
                    ELSE pxWClosed
    /\ pxPc' = [pxPc EXCEPT ![i] = "closeR"]
    /\ UNCHANGED <<pxSegs, pxLookup, pxRunErr, pxRClosed, firstErr,
                   pxCancelled, pxRecorded, pxReturned>>
    /\ UNCHANGED notPxVars

\* if i > 0: pipes[i-1].r.Close(); then the deferred wg.Done().
WorkerCloseReader(i) ==
    /\ pxPc[i] = "closeR"
    /\ pxRClosed' = IF i > 1 THEN [pxRClosed EXCEPT ![i - 1] = TRUE]
                    ELSE pxRClosed
    /\ pxPc' = [pxPc EXCEPT ![i] = "done"]
    /\ UNCHANGED <<pxSegs, pxLookup, pxRunErr, pxWClosed, firstErr,
                   pxCancelled, pxRecorded, pxReturned>>
    /\ UNCHANGED notPxVars

\* The caller cancels the context it passed to Execute.
CallerCancels ==
    /\ ~pxCancelled
    /\ ~pxReturned.Done
    /\ pxCancelled' = TRUE
    /\ UNCHANGED <<pxSegs, pxLookup, pxPc, pxRunErr, pxWClosed, pxRClosed,
                   firstErr, pxRecorded, pxReturned>>
    /\ UNCHANGED notPxVars

\* wg.Wait() returns and Execute returns firstErr.
ExecuteReturns ==
    /\ pxSegs > 1
    /\ ~pxReturned.Done
    /\ \A i \in 1..pxSegs : pxPc[i] = "done"
    /\ pxReturned' = [Done |-> TRUE, Err |-> firstErr]
    /\ UNCHANGED <<pxSegs, pxLookup, pxPc, pxRunErr, pxWClosed, pxRClosed,
                   firstErr, pxCancelled, pxRecorded>>
    /\ UNCHANGED notPxVars

NextPipes ==
    \/ \E kind \in {"nil", "run", "lookup"} :
           ExecuteSingle(IF kind = "nil" THEN NoErr ELSE ErrOf(1, kind))
    \/ \E i \in Workers : WorkerLookupFails(i)
    \/ \E i \in Workers : WorkerRun(i)
    \/ \E i \in Workers : RunReads(i)
    \/ \E i \in Workers : RunWrites(i)
    \/ \E k \in PipeIds : PipeTransfer(k)
    \/ \E i \in Workers : ReadSeesClose(i)
    \/ \E i \in Workers : WriteSeesClose(i)
    \/ \E i \in Workers, kind \in {"nil", "run", "killed"} :
           RunReturns(i, kind)
    \/ \E i \in Workers : WorkerSetErr(i)
    \/ \E i \in Workers : WorkerCloseWriter(i)
    \/ \E i \in Workers : WorkerCloseReader(i)
    \/ CallerCancels
    \/ ExecuteReturns

\* C34 as stated: a worker that has finished has closed the write side of
\* its outgoing pipe and the read side of its incoming pipe.
C34_Original ==
    \A i \in Workers :
        (pxSegs > 1 /\ pxPc[i] = "done")
            => /\ i < pxSegs => pxWClosed[i]
               /\ i > 1 => pxRClosed[i - 1]

\* A worker inside a Read or a Write that nothing has let return.
PipeBlocked(i) ==
    \/ pxPc[i] = "reading" /\ ~pxWClosed[i - 1] /\ pxPc[i - 1] # "writing"
    \/ pxPc[i] = "writing" /\ ~pxRClosed[i] /\ pxPc[i + 1] # "reading"

\* C35 as stated, in the form a finite run refutes: once the context is
\* cancelled, never is a worker blocked in a pipe while every other worker
\* is finished or blocked too (nothing would ever unblock it and Execute
\* would not return).
C35_Original ==
    ~(/\ pxCancelled
      /\ \E i \in Workers : PipeBlocked(i)
      /\ \A i \in Workers : pxPc[i] \in {"none", "done"} \/ PipeBlocked(i))

\* C36: when Execute has returned every worker has finished, and what it
\* returned is the first non-nil error a worker recorded, nil when none
\* did.
C36_FirstErrorAfterAll ==
    pxReturned.Done
        => /\ \A i \in 1..pxSegs : pxPc[i] = "done"
           /\ pxReturned.Err =
                  IF pxRecorded = <<>> THEN NoErr ELSE pxRecorded[1]

\* The second worker's Run failed first, the first worker's Run, killed by
\* the cancellation, failed after it, and Execute returned the second
\* worker's error.
C36_Witness ==
    /\ pxReturned.Done
    /\ pxSegs = 2
    /\ Len(pxRecorded) = 2
    /\ pxRecorded[1] = ErrOf(2, "run")
    /\ pxRecorded[2] = ErrOf(1, "killed")
    /\ pxReturned.Err = ErrOf(2, "run")

----------------------------------------------------------------------------
(* The client's writers on the connection: the stdin pump of Relay and the *)
(* goroutine of ForwardSignals, both through ipc.WriteFrame, which writes  *)
(* the header and the payload with two Write calls.  No lock is shared.    *)

ClientWriters == {"pump", "signals"}

InitClientWriters ==
    /\ cwPc = [w \in ClientWriters |-> "idle"]
    /\ cwSent = [w \in ClientWriters |-> 0]
    /\ cwWire = <<>>

\* The state of client writers that no specification step touches.
ClientWritersIdle ==
    /\ cwPc = [w \in ClientWriters |-> "done"]
    /\ cwSent = [w \in ClientWriters |-> 0]
    /\ cwWire = <<>>

ClientPart(w, tag, k, part) ==
    [Writer |-> w, Tag |-> tag, Frame |-> k, Part |-> part]

\* The pump read n > 0 bytes: WriteFrame(conn, TagStdinData, buf[:n])
\* writes the header.
PumpWriteHeader ==
    /\ cwPc["pump"] = "idle"
    /\ cwSent["pump"] < MaxWrites
    /\ cwWire' = Append(cwWire, ClientPart("pump", TagStdinData,
                                           cwSent["pump"] + 1, "header"))
    /\ cwPc' = [cwPc EXCEPT !["pump"] = "payload"]
    /\ UNCHANGED cwSent
    /\ UNCHANGED notCwVars

\* WriteFrame of the pump writes the payload.
PumpWritePayload ==
    /\ cwPc["pump"] = "payload"
    /\ cwWire' = Append(cwWire, ClientPart("pump", TagStdinData,
                                           cwSent["pump"] + 1, "payload"))
    /\ cwSent' = [cwSent EXCEPT !["pump"] = @ + 1]
    /\ cwPc' = [cwPc EXCEPT !["pump"] = "idle"]
    /\ UNCHANGED notCwVars

\* stdin.Read returned an error: WriteFrame(conn, TagStdinEOF, nil) writes
\* a header and no payload, and the pump returns.
PumpWriteEOF ==
    /\ cwPc["pump"] = "idle"
    /\ cwWire' = Append(cwWire, ClientPart("pump", TagStdinEOF,
                                           cwSent["pump"] + 1, "header"))
    /\ cwSent' = [cwSent EXCEPT !["pump"] = @ + 1]
    /\ cwPc' = [cwPc EXCEPT !["pump"] = "done"]
    /\ UNCHANGED notCwVars

\* A SIGINT arrived: WriteJSON(conn, TagSignal, ...) writes the header.
SignalWriteHeader ==
    /\ cwPc["signals"] = "idle"
    /\ cwSent["signals"] < MaxWrites
    /\ cwWire' = Append(cwWire, ClientPart("signals", TagSignal,
                                           cwSent["signals"] + 1, "header"))
    /\ cwPc' = [cwPc EXCEPT !["signals"] = "payload"]
    /\ UNCHANGED cwSent
    /\ UNCHANGED notCwVars

\* WriteFrame of the signal forwarder writes the payload.
SignalWritePayload ==
    /\ cwPc["signals"] = "payload"
    /\ cwWire' = Append(cwWire, ClientPart("signals", TagSignal,
                                           cwSent["signals"] + 1, "payload"))
    /\ cwSent' = [cwSent EXCEPT !["signals"] = @ + 1]
    /\ cwPc' = [cwPc EXCEPT !["signals"] = "idle"]
    /\ UNCHANGED notCwVars

\* The cleanup function of ForwardSignals: the channel is closed and the
\* goroutine ends.
SignalStop ==
    /\ cwPc["signals"] = "idle"
    /\ cwPc' = [cwPc EXCEPT !["signals"] = "done"]
    /\ UNCHANGED <<cwSent, cwWire>>
    /\ UNCHANGED notCwVars

NextClientWriters ==
    \/ PumpWriteHeader
    \/ PumpWritePayload
    \/ PumpWriteEOF
    \/ SignalWriteHeader
    \/ SignalWritePayload
    \/ SignalStop

\* C38 as stated: on the wire, the header of a stdin-data frame is followed
\* at once by the payload of that frame, and no write of a Signal frame
\* stands between them.
C38_Original ==
    \A i \in 1..Len(cwWire) :
        (/\ cwWire[i].Tag = TagStdinData
         /\ cwWire[i].Part = "header"
         /\ i < Len(cwWire))
            => /\ cwWire[i + 1].Writer = "pump"
               /\ cwWire[i + 1].Part = "payload"
               /\ cwWire[i + 1].Frame = cwWire[i].Frame

----------------------------------------------------------------------------
(* Level 1 engines built from one rule configuration, whatever the order   *)
(* the ranges over its maps run in, and the registry's rule set compiled   *)
(* from the same configuration.                                            *)

\* Most engines built from the configuration in one behaviour.
MaxEngines == 2

NotChecked == <<"not checked">>

InitRules ==
    /\ reCfg \in RuleConfigs
    /\ reSegs \in PolicySegLists
    /\ reRedirOut \in BOOLEAN
    /\ reRetry \in BOOLEAN
    /\ reResults = <<>>
    /\ reErrs = NotChecked

\* The state of the engines that no specification step touches.
RulesIdle ==
    /\ reCfg = NoSubcommands
    /\ reSegs = <<>>
    /\ reRedirOut = FALSE
    /\ reRetry = FALSE
    /\ reResults = <<>>
    /\ reErrs = NotChecked

\* NewLevel1(cfg), its two map ranges running in the orders capOrder and
\* subOrders, and Evaluate on the engine it returns.
NewEngineEvaluate(capOrder, subOrders) ==
    /\ Len(reResults) < MaxEngines
    /\ capOrder \in Perms(DOMAIN reCfg)
    /\ subOrders \in SubOrders(reCfg)
    /\ reResults' = Append(reResults,
                           Level1Evaluate(NewLevel1(reCfg, capOrder,
                                                    subOrders),
                                          reSegs, reRedirOut, reRetry))
    /\ UNCHANGED <<reCfg, reSegs, reRedirOut, reRetry, reErrs>>
    /\ UNCHANGED notReVars

\* RuleSet.Check of the rule set ApplyRules compiles from the
\* configuration, on every segment of the request.
RuleSetChecks ==
    /\ reErrs = NotChecked
    /\ reErrs' = [i \in 1..Len(reSegs) |->
                     RuleSetCheck(reCfg, reSegs[i].CapName, reSegs[i].Args,
                                  reRetry)]
    /\ UNCHANGED <<reCfg, reSegs, reRedirOut, reRetry, reResults>>
    /\ UNCHANGED notReVars

\* The iteration orders of the maps of the configurations carried.
CapOrders == UNION {Perms(DOMAIN cfg) : cfg \in RuleConfigs}
AllSubOrders == UNION {SubOrders(cfg) : cfg \in RuleConfigs}

NextRules ==
    \/ \E capOrder \in CapOrders, subOrders \in AllSubOrders :
           NewEngineEvaluate(capOrder, subOrders)
    \/ RuleSetChecks

\* C39: an engine built from the configuration returns Deny exactly when
\* RuleSet.Check returns an error for at least one segment of the request.
C39_SameDenyRules ==
    reErrs # NotChecked
        => \A k \in 1..Len(reResults) :
               (reResults[k].Decision = Deny)
                   <=> (\E i \in 1..Len(reErrs) : reErrs[i] # "")

\* git push --force with retry: the engine does not deny, and the rule set
\* returns no error, although the configuration rejects the flag.
C39_Witness ==
    /\ reRetry
    /\ reCfg = DefaultRules
    /\ reSegs = <<Seg(S_git, <<A_push, A_force>>)>>
    /\ reErrs = <<"">>
    /\ Len(reResults) = 1
    /\ reResults[1].Decision = Escalate

\* C40 as stated: two engines built from the same configuration return
\* the same Decision and the same RuleID for the same request.
C40_Original ==
    Len(reResults) = 2
        => /\ reResults[1].Decision = reResults[2].Decision
           /\ reResults[1].RuleID = reResults[2].RuleID

----------------------------------------------------------------------------
(* Specifications.                                                         *)

\* The state of a subsystem a specification does not exercise.
ExtIdle ==
    /\ RelayIdle
    /\ SocketIdle
    /\ Level2Idle
    /\ ParseIdle
    /\ LoggersIdle
    /\ PipesIdle
    /\ ClientWritersIdle
    /\ RulesIdle

NetIdle == FramesIdle /\ ConnIdle /\ ServeIdle /\ ExtIdle

PolicyIdle ==
    /\ l1Rules = <<>>
    /\ pSegs = <<>>
    /\ pRedirOut = FALSE
    /\ pRes = [r \in BOOLEAN |-> NotEvaluated]

InitSpecPolicy == InitPolicy /\ InitTokens /\ InitAudit /\ DaemonIdle /\ NetIdle
SpecPolicy == InitSpecPolicy /\ [][NextPolicy]_vars

InitSpecTokens == InitTokens /\ PolicyIdle /\ InitAudit /\ DaemonIdle /\ NetIdle
SpecTokens == InitSpecTokens /\ [][NextTokens]_vars

InitSpecAudit == InitAudit /\ PolicyIdle /\ InitTokens /\ DaemonIdle /\ NetIdle
SpecAudit == InitSpecAudit /\ [][NextAudit]_vars

InitSpecDaemon == InitDaemon /\ InitAudit /\ PolicyIdle /\ InitTokens /\ NetIdle
SpecDaemon == InitSpecDaemon /\ [][NextDaemon]_vars

InitSpecExecute == InitExecute /\ InitAudit /\ PolicyIdle /\ InitTokens /\ NetIdle
SpecExecute == InitSpecExecute /\ [][NextExecute]_vars

QuietIdle == PolicyIdle /\ InitTokens /\ InitAudit /\ DaemonIdle

\* The idle state of everything before the models added after the daemon's.
CoreIdle == QuietIdle /\ FramesIdle /\ ConnIdle /\ ServeIdle

InitSpecFrames == InitFrames /\ ConnIdle /\ ServeIdle /\ QuietIdle /\ ExtIdle
SpecFrames == InitSpecFrames /\ [][NextFrames]_vars

InitSpecConn == InitConn /\ FramesIdle /\ ServeIdle /\ QuietIdle /\ ExtIdle
SpecConn == InitSpecConn /\ [][NextConn]_vars

InitSpecServe == InitServe /\ FramesIdle /\ ConnIdle /\ QuietIdle /\ ExtIdle
SpecServe == InitSpecServe /\ [][NextServe]_vars

InitSpecRelay ==
    /\ InitRelay
    /\ CoreIdle
    /\ SocketIdle
    /\ Level2Idle
    /\ ParseIdle
    /\ LoggersIdle
    /\ PipesIdle
    /\ ClientWritersIdle
    /\ RulesIdle
SpecRelay == InitSpecRelay /\ [][NextRelay]_vars

InitSpecSocket ==
    /\ InitSocket
    /\ CoreIdle
    /\ RelayIdle
    /\ Level2Idle
    /\ ParseIdle
    /\ LoggersIdle
    /\ PipesIdle
    /\ ClientWritersIdle
    /\ RulesIdle
SpecSocket == InitSpecSocket /\ [][NextSocket]_vars

InitSpecLevel2 ==
    /\ InitLevel2
    /\ CoreIdle
    /\ RelayIdle
    /\ SocketIdle
    /\ ParseIdle
    /\ LoggersIdle
    /\ PipesIdle
    /\ ClientWritersIdle
    /\ RulesIdle
SpecLevel2 == InitSpecLevel2 /\ [][NextLevel2]_vars

InitSpecParse ==
    /\ InitParse
    /\ CoreIdle
    /\ RelayIdle
    /\ SocketIdle
    /\ Level2Idle
    /\ LoggersIdle
    /\ PipesIdle
    /\ ClientWritersIdle
    /\ RulesIdle
SpecParse == InitSpecParse /\ [][NextParse]_vars

InitSpecLoggers ==
    /\ InitLoggers
    /\ CoreIdle
    /\ RelayIdle
    /\ SocketIdle
    /\ Level2Idle
    /\ ParseIdle
    /\ PipesIdle
    /\ ClientWritersIdle
    /\ RulesIdle
SpecLoggers == InitSpecLoggers /\ [][NextLoggers]_vars

InitSpecPipes ==
    /\ InitPipes
    /\ CoreIdle
    /\ RelayIdle
    /\ SocketIdle
    /\ Level2Idle
    /\ ParseIdle
    /\ LoggersIdle
    /\ ClientWritersIdle
    /\ RulesIdle
SpecPipes == InitSpecPipes /\ [][NextPipes]_vars

InitSpecClientWriters ==
    /\ InitClientWriters
    /\ CoreIdle
    /\ RelayIdle
    /\ SocketIdle
    /\ Level2Idle
    /\ ParseIdle
    /\ LoggersIdle
    /\ PipesIdle
    /\ RulesIdle
SpecClientWriters == InitSpecClientWriters /\ [][NextClientWriters]_vars

InitSpecRules ==
    /\ InitRules
    /\ CoreIdle
    /\ RelayIdle
    /\ SocketIdle
    /\ Level2Idle
    /\ ParseIdle
    /\ LoggersIdle
    /\ PipesIdle
    /\ ClientWritersIdle
SpecRules == InitSpecRules /\ [][NextRules]_vars

====
